---- MODULE Spec2Model ----
(***************************************************************************)
(* Service & Session Lifecycle Manager (scripts/service_manager.py).       *)
(*                                                                         *)
(* The state is the persisted filesystem layout (.pids, .logs, active/,    *)
(* archive/), the operating system's process table and the listener of the *)
(* web UI port, and, for every invocation of the manager, the position of  *)
(* that invocation in the function it executes together with its locals.   *)
(* Every step of start_service, stop_service, create_auto_session,         *)
(* archive_session, activate, deactivate and status is one action; the     *)
(* operating system (a process exits, an unrelated process appears, a      *)
(* process binds the port) acts in between.                                *)
(***************************************************************************)
EXTENDS Integers, Sequences, FiniteSets, TLC

\* ------------------------------------------------------------------ bounds
\* Process ids the operating system hands out.
MaxPid == 2
\* Top-level calls made by one behaviour.
MaxCalls == 3
\* Events of the operating system (exit, foreign spawn, bind) in one behaviour.
MaxEnv == 2

\* Prompts a prompt log or a prompt history holds at the start.
MaxLog == 2
\* The largest prompt_tracking.history_limit configured.
MaxLimit == 3

\* Commands and direct session calls made by one behaviour of the lifecycle.
LifeCalls == 1
\* Processes that exit during one behaviour of the lifecycle.
LifeEnv == 1

\* ------------------------------------------------------ program constants
WebPort == 8765
PollMax == 10
WebWaitMax == 20

Pids == 1..MaxPid
Invokers == {1, 2}

\* SERVICES, in the order the dict is iterated.
SERVICES == <<"web_ui", "file_watcher">>
ServiceNames == {SERVICES[k] : k \in 1..Len(SERVICES)}

\* config.get('port'): 0 stands for None.
PortOf(s) == IF s = "web_ui" THEN WebPort ELSE 0

\* ------------------------------------------------------------ pid registry
\* A pid file is absent or holds a text.
NoFile == "<absent>"
\* str(pid) for the pids of the model.
PidStr == <<"1", "2", "3", "4", "5", "6">>
str(n) == PidStr[n]
\* None, as returned by read_pid.
None == 0 - 1
\* A pid record no invocation writes: the digits of 2^31, one more than a pid_t
\* holds.  Beyond stands for the integer it parses to.
Huge == "2147483648"
Beyond == 0 - 2
\* int(text.strip()): the integer, or None for the ValueError.
int(text) ==
    IF text = "0" THEN 0
    ELSE IF text = Huge THEN Beyond
    ELSE IF \E n \in 1..Len(PidStr) : PidStr[n] = text
         THEN CHOOSE n \in 1..Len(PidStr) : PidStr[n] = text
         ELSE None
\* Python truthiness of an Optional[int].
Truthy(x) == x # None /\ x # 0

VARIABLES
    pidFile,    \* [service -> NoFile or the text of .pids/<service>.pid]
    logFile,    \* [service -> whether .logs/<service>.log exists, and the processes
                \*             whose output it holds]
    proc,       \* [pid -> "none" | "foreign" | "other" | the service it was spawned for
                \*         | "zombie": exited, not yet reaped by its parent]
    listener,   \* the pid listening on 127.0.0.1:8765, 0 for none
    active,     \* [name of a file in active/ -> its lines], the files that exist
    archive,    \* [name of a directory in archive/ -> [file name -> its lines]]
    hookFile,   \* whether scripts/hooks_PostToolUse_ErrorCapture.py was written
    memory,     \* [name of a file of the prompt tracker in the memory directory
                \*  -> its lines], the files that exist
    ctx,        \* [invoker -> where it is and its locals]
    eff,        \* [invoker -> what the current start/stop call did so far]
    hist,       \* [service -> the run of start calls last completed on it]
    calls,      \* top-level calls made so far
    envn        \* operating system events so far

vars == <<pidFile, logFile, proc, listener, active, archive, hookFile, memory, ctx, eff, hist, calls, envn>>

fsvars == <<pidFile, logFile>>
osvars == <<proc, listener>>
sessvars == <<active, archive, hookFile, memory>>

\* ------------------------------------------------------------- documents
\* A directory without files.
EmptyDir == [f \in {} |-> <<>>]
\* The directory d with file f holding content c.
Put(d, f, c) == [g \in DOMAIN d \cup {f} |-> IF g = f THEN c ELSE d[g]]
\* The directory d without file f.
Del(d, f) == [g \in DOMAIN d \ {f} |-> d[g]]

\* ------------------------------------------------------- process registry
get_pid_file(s) == pidFile[s]

\* No log file; the file open(log_file, 'w') leaves; the file once process p,
\* which has it as stdout and stderr, has written to it.
NoLog == [exists |-> FALSE, from |-> {}]
Truncated == [exists |-> TRUE, from |-> {}]
OutputOf(log, p) == [log EXCEPT !.from = @ \cup {p}]

read_pid(s) ==
    IF get_pid_file(s) = NoFile THEN None ELSE int(get_pid_file(s))

\* write_pid with a fault: one pid file for all services.
WritePidShared(s, pid) == [t \in ServiceNames |-> str(pid)]

write_pid(s, pid) == [pidFile EXCEPT ![s] = str(pid)]

remove_pid(s) == [pidFile EXCEPT ![s] = NoFile]

\* os.kill(pid, sig) raises OSError: ESRCH when there is no such process,
\* EPERM when the process belongs to another user.  A zombie takes the signal.
KillRaises(pid) == pid \notin Pids \/ proc[pid] \in {"none", "foreign"}

\* os.kill(pid, sig) raises OverflowError, which is no OSError, for an integer
\* that does not fit a pid_t.
KillOverflows(pid) == pid = Beyond

\* is_running with a fault: only ESRCH counts as dead.
IsRunningUnlessGone(pid) == pid \in Pids /\ proc[pid] # "none"

\* try: os.kill(pid, 0); return True; except OSError: return False
is_running(pid) == ~KillRaises(pid)

check_port(port) == port = WebPort /\ listener # 0

\* ------------------------------------------------------------ bookkeeping
\* What a call did, in order: one event per system call, sleep or file access.
Ev(k, p) == [k |-> k, p |-> p]
Log(e, k, p) == [e EXCEPT !.tr = Append(@, Ev(k, p))]
Probe(e, pid) == Log(e, IF is_running(pid) THEN "probe_ok" ELSE "probe_fail", pid)
\* The positions of the events of kind k, and their number.
At(tr, k) == {j \in DOMAIN tr : tr[j].k = k}
N(tr, k) == Cardinality(At(tr, k))

\* rec0: the text of the service's pid file when the call was made;
\* docs0: the active-session directory when the call was made.
NoEff == [tr |-> <<>>, rec0 |-> NoFile, docs0 |-> EmptyDir]

\* top: the command or function the invocation was started with; op: the
\* function being executed; pc: the position in it; svc, pid, polls: locals of
\* start_service and stop_service; branch, sname, todo: locals of
\* create_auto_session and archive_session (sname is also the name the former
\* returns); idx, all_started, any_running, session: locals of activate,
\* deactivate and status; arch: what deactivate's archive step came to; called,
\* rets: the services the command has called start_service or stop_service
\* for, and what the calls returned; snap: the persisted files when the
\* command was invoked; ret, msg: the value the last call returned and the
\* line it printed; exit: the exit status of the command; archive_dir, prompts,
\* count: the argument, the local and the result of archive_prompts.
IdleCtx ==
    [top |-> "idle", op |-> "none", pc |-> "idle", svc |-> "none", pid |-> None,
     polls |-> 0, ret |-> "none", msg |-> "none", sname |-> <<>>, todo |-> {},
     idx |-> 0, all_started |-> TRUE, any_running |-> FALSE, session |-> <<>>,
     arch |-> "none", branch |-> <<>>, called |-> <<>>, rets |-> <<>>,
     snap |-> <<>>, exit |-> None, archive_dir |-> <<>>, prompts |-> <<>>, count |-> 0]

\* The position a returning function hands control to: the caller of a direct
\* call ("done"), or the place of the call in activate or deactivate.
AfterReturn(c) ==
    IF c.top \in {"start", "stop", "create", "archive", "archive_prompts"} THEN "done"
    ELSE IF c.top = "activate"
         THEN (IF c.op = "create" THEN "a_created" ELSE "a_started")
         ELSE (IF c.op = "archive" THEN "d_archived" ELSE "d_stopped")

\* The frame of the callee is gone; its result is left to the caller.
Returned(c, val, msg) ==
    [c EXCEPT !.pc = AfterReturn(c), !.pid = None, !.polls = 0,
              !.ret = val, !.msg = msg]

\* hist[s] = <<n, w>>: the last n completed calls on s were a start that spawned
\* and reported success followed by n-1 starts that reported "already running"
\* (n capped at 3); w counts the pid-registry writes of those calls.
HistAfter(h, op, msg, e) ==
    IF op = "start" /\ msg = "started" THEN <<1, N(e.tr, "write_pid")>>
    ELSE IF op = "start" /\ msg = "already running" /\ h[1] >= 1
         THEN <<IF h[1] < 3 THEN h[1] + 1 ELSE 3, h[2] + N(e.tr, "write_pid")>>
         ELSE <<0, 0>>

Finish(i, val, msg, e) ==
    /\ ctx' = [ctx EXCEPT ![i] = Returned(@, val, msg)]
    /\ eff' = [eff EXCEPT ![i] = e]
    /\ hist' = [hist EXCEPT ![ctx[i].svc] = HistAfter(@, ctx[i].op, msg, e)]

Goto(i, c, e) ==
    /\ ctx' = [ctx EXCEPT ![i] = c]
    /\ eff' = [eff EXCEPT ![i] = e]
    /\ UNCHANGED hist

\* An exception nothing catches: a direct call hands it to its caller; a
\* command ends with a traceback and exit status 1.
Raise(i, e) ==
    /\ ctx' = [ctx EXCEPT ![i] = [@ EXCEPT !.pc = "done", !.pid = None, !.polls = 0,
                                            !.ret = "raise", !.msg = "traceback",
                                            !.exit = IF ctx[i].top \in {"activate", "deactivate", "status"}
                                                     THEN 1 ELSE None]]
    /\ eff' = [eff EXCEPT ![i] = e]
    /\ UNCHANGED hist

\* The frame of a call of start_service or stop_service on s.
Enter(c, op, pc, s) ==
    [c EXCEPT !.op = op, !.pc = pc, !.svc = s, !.pid = None, !.polls = 0,
              !.ret = "none", !.msg = "none"]

\* What a process becomes when it exits: the child of a start_service call
\* that still holds its Popen object stays in the process table as a zombie;
\* any other process is reaped at once by its parent.
Exited(p) ==
    IF \E i \in Invokers : /\ ctx[i].op = "start"
                           /\ ctx[i].pc \in {"s_write", "s_verify"}
                           /\ ctx[i].pid = p
    THEN "zombie" ELSE "none"

\* start_service returns and its Popen object is released: the child, if it
\* has exited, is reaped.
Reaped(pid) ==
    IF pid \in Pids /\ proc[pid] = "zombie" THEN [proc EXCEPT ![pid] = "none"] ELSE proc

\* ---------------------------------------------------------- start_service
\* Entry of a direct call start_service(s, SERVICES[s]).
CallStart(i, s) ==
    /\ ctx[i].top = "idle"
    /\ calls < MaxCalls
    /\ calls' = calls + 1
    /\ Goto(i, Enter([IdleCtx EXCEPT !.top = "start"], "start", "s_check", s),
            [NoEff EXCEPT !.rec0 = pidFile[s]])
    /\ UNCHANGED <<fsvars, osvars, sessvars, envn>>

\* StartCheck with a fault: the already-running path writes the record again.
StartCheckRewrites(i) ==
    /\ ctx[i].pc = "s_check"
    /\ LET s == ctx[i].svc
           existing_pid == read_pid(s)
           e == IF Truthy(existing_pid) THEN Probe(eff[i], existing_pid) ELSE eff[i]
       IN  IF Truthy(existing_pid) /\ is_running(existing_pid)
           THEN /\ pidFile' = write_pid(s, existing_pid)
                /\ Finish(i, "true", "already running", Log(e, "write_pid", existing_pid))
           ELSE /\ Goto(i, [ctx[i] EXCEPT !.pc = "s_port", !.pid = existing_pid], e)
                /\ UNCHANGED pidFile
    /\ UNCHANGED <<logFile, osvars, sessvars, calls, envn>>

\* StartCheck with a fault: a record that names a pid is trusted without a
\* liveness probe.
StartCheckTrustsRecord(i) ==
    /\ ctx[i].pc = "s_check"
    /\ LET s == ctx[i].svc
           existing_pid == read_pid(s)
           e == IF Truthy(existing_pid) THEN Probe(eff[i], existing_pid) ELSE eff[i]
       IN  IF Truthy(existing_pid)
           THEN Finish(i, "true", "already running", e)
           ELSE Goto(i, [ctx[i] EXCEPT !.pc = "s_port", !.pid = existing_pid], e)
    /\ UNCHANGED <<fsvars, osvars, sessvars, calls, envn>>

\* existing_pid = read_pid(service); if existing_pid and is_running(existing_pid)
StartCheck(i) ==
    /\ ctx[i].pc = "s_check"
    /\ LET s == ctx[i].svc
           existing_pid == read_pid(s)
           e == IF Truthy(existing_pid) THEN Probe(eff[i], existing_pid) ELSE eff[i]
       IN  IF Truthy(existing_pid) /\ KillOverflows(existing_pid)
           THEN Raise(i, Log(eff[i], "overflow", 0))
           ELSE IF Truthy(existing_pid) /\ is_running(existing_pid)
           THEN Finish(i, "true", "already running", e)
           ELSE Goto(i, [ctx[i] EXCEPT !.pc = "s_port", !.pid = existing_pid], e)
    /\ UNCHANGED <<fsvars, osvars, sessvars, calls, envn>>

\* FreePort with a fault: the owners are enumerated and none is signalled.
FreePortNoSignal(e, holder, listed) ==
    Log(Log(e, "port_busy", holder), "lsof", Cardinality(listed))

\* try: os.kill(int(pid), signal.SIGTERM); except: pass
TermOwner(e, pid) ==
    IF KillRaises(pid) THEN Log(Log(e, "port_term", pid), "swallowed", pid)
    ELSE Log(e, "port_term", pid)

\* FreePort with a fault: the first kill that raises ends the loop.
FreePortStopsAtFailure(e, holder, listed) ==
    LET e1 == Log(Log(e, "port_busy", holder), "lsof", Cardinality(listed))
        F[n \in 0..MaxPid] ==
            IF n = 0 THEN e1
            ELSE IF n \in listed /\ N(F[n - 1].tr, "swallowed") = 0
                 THEN TermOwner(F[n - 1], n) ELSE F[n - 1]
    IN  IF listed = {} THEN e1 ELSE Log(F[MaxPid], "sleep", 0)

\* The events of the port-freeing block once check_port found the port bound by
\* `holder`: lsof -ti :port, SIGTERM to every pid it lists, in the order
\* listed (a failing kill is swallowed), and the sleep, which is skipped when
\* nothing is listed.
FreePort(e, holder, listed) ==
    LET e1 == Log(Log(e, "port_busy", holder), "lsof", Cardinality(listed))
        F[n \in 0..MaxPid] ==
            IF n = 0 THEN e1
            ELSE IF n \in listed THEN TermOwner(F[n - 1], n) ELSE F[n - 1]
    IN  IF listed = {} THEN e1 ELSE Log(F[MaxPid], "sleep", 0)

\* if port and check_port(port): free the port.  lsof lists the listener, or
\* nothing (tool missing, failure, owner not visible to this user), or the
\* listener and the other processes holding a socket of the port.
StartPort(i) ==
    /\ ctx[i].pc = "s_port"
    /\ LET s == ctx[i].svc
           port == PortOf(s)
       IN  IF port # 0 /\ check_port(port)
           THEN \E listed \in {{}, {listener}, Pids} :
                    Goto(i, [ctx[i] EXCEPT !.pc = "s_spawn"],
                         FreePort(eff[i], listener, listed))
           ELSE Goto(i, [ctx[i] EXCEPT !.pc = "s_spawn"],
                     IF port # 0 THEN Log(eff[i], "port_free", 0) ELSE eff[i])
    /\ UNCHANGED <<fsvars, osvars, sessvars, calls, envn>>

\* StartSpawn with a fault: the log is opened for appending.
StartSpawnAppends(i) ==
    /\ ctx[i].pc = "s_spawn"
    /\ LET s == ctx[i].svc
       IN  \E p \in Pids :
                /\ proc[p] = "none"
                /\ proc' = [proc EXCEPT ![p] = s]
                /\ logFile' = [logFile EXCEPT ![s] = OutputOf([@ EXCEPT !.exists = TRUE], p)]
                /\ Goto(i, [ctx[i] EXCEPT !.pc = "s_write", !.pid = p],
                        Log(Log(eff[i], "open_log", 0), "spawn", p))
                /\ UNCHANGED <<pidFile, listener>>
    /\ UNCHANGED <<sessvars, calls, envn>>

\* with open(log_file, 'w') as log: process = subprocess.Popen(...)
\* Opening the log or creating the child may raise; the handler returns False.
StartSpawn(i) ==
    /\ ctx[i].pc = "s_spawn"
    /\ LET s == ctx[i].svc
       IN  \/ \* open() raises
              /\ Finish(i, "false", "error", Log(eff[i], "open_fail", 0))
              /\ UNCHANGED <<fsvars, osvars>>
           \/ \* the log is truncated, Popen raises
              /\ logFile' = [logFile EXCEPT ![s] = Truncated]
              /\ Finish(i, "false", "error",
                        Log(Log(eff[i], "open_log", 0), "popen_fail", 0))
              /\ UNCHANGED <<pidFile, osvars>>
           \/ \E p \in Pids :
                /\ proc[p] = "none"
                /\ proc' = [proc EXCEPT ![p] = s]
                /\ logFile' = [logFile EXCEPT ![s] = OutputOf(Truncated, p)]
                /\ Goto(i, [ctx[i] EXCEPT !.pc = "s_write", !.pid = p],
                        Log(Log(eff[i], "open_log", 0), "spawn", p))
                /\ UNCHANGED <<pidFile, listener>>
    /\ UNCHANGED <<sessvars, calls, envn>>

\* StartWrite with a fault: the child's pid is not recorded.
StartWriteSkips(i) ==
    /\ ctx[i].pc = "s_write"
    /\ Goto(i, [ctx[i] EXCEPT !.pc = "s_verify"], Log(eff[i], "sleep", 0))
    /\ UNCHANGED <<fsvars, osvars, sessvars, calls, envn>>

\* write_pid(service, process.pid); time.sleep(0.5)
StartWrite(i) ==
    /\ ctx[i].pc = "s_write"
    /\ LET s == ctx[i].svc
       IN  \/ /\ pidFile' = write_pid(s, ctx[i].pid)
              /\ Goto(i, [ctx[i] EXCEPT !.pc = "s_verify"],
                      Log(Log(eff[i], "write_pid", ctx[i].pid), "sleep", 0))
              /\ UNCHANGED proc
           \/ \* write_text raises
              /\ Finish(i, "false", "error", Log(eff[i], "write_fail", ctx[i].pid))
              /\ proc' = Reaped(ctx[i].pid)
              /\ UNCHANGED pidFile
    /\ UNCHANGED <<logFile, listener, sessvars, calls, envn>>

\* if is_running(process.pid): return True, else return False
StartVerify(i) ==
    /\ ctx[i].pc = "s_verify"
    /\ IF is_running(ctx[i].pid)
       THEN Finish(i, "true", "started", Probe(eff[i], ctx[i].pid))
       ELSE Finish(i, "false", "failed", Probe(eff[i], ctx[i].pid))
    /\ proc' = Reaped(ctx[i].pid)
    /\ UNCHANGED <<fsvars, listener, sessvars, calls, envn>>

start_service(i) ==
    \/ StartCheck(i)
    \/ StartPort(i)
    \/ StartSpawn(i)
    \/ StartWrite(i)
    \/ StartVerify(i)

\* ----------------------------------------------------------- stop_service
\* Entry of a direct call stop_service(s, SERVICES[s]).
CallStop(i, s) ==
    /\ ctx[i].top = "idle"
    /\ calls < MaxCalls
    /\ calls' = calls + 1
    /\ Goto(i, Enter([IdleCtx EXCEPT !.top = "stop"], "stop", "k_check", s),
            [NoEff EXCEPT !.rec0 = pidFile[s]])
    /\ UNCHANGED <<fsvars, osvars, sessvars, envn>>

\* StopCheck with a fault: the liveness probe is made before the record is
\* tested for absence.
StopCheckProbesFirst(i) ==
    /\ ctx[i].pc = "k_check"
    /\ LET s == ctx[i].svc
           pid == read_pid(s)
           e == Probe(eff[i], pid)
       IN  IF ~is_running(pid) \/ ~Truthy(pid)
           THEN /\ pidFile' = remove_pid(s)
                /\ Finish(i, "true", "not running", Log(e, "remove_pid", 0))
           ELSE /\ Goto(i, [ctx[i] EXCEPT !.pc = "k_term", !.pid = pid], e)
                /\ UNCHANGED pidFile
    /\ UNCHANGED <<logFile, osvars, sessvars, calls, envn>>

\* pid = read_pid(service); if not pid or not is_running(pid): remove_pid; return True
StopCheck(i) ==
    /\ ctx[i].pc = "k_check"
    /\ LET s == ctx[i].svc
           pid == read_pid(s)
           e == IF Truthy(pid) THEN Probe(eff[i], pid) ELSE eff[i]
       IN  IF Truthy(pid) /\ KillOverflows(pid)
           THEN /\ Raise(i, Log(eff[i], "overflow", 0))
                /\ UNCHANGED pidFile
           ELSE IF ~Truthy(pid) \/ ~is_running(pid)
           THEN /\ pidFile' = remove_pid(s)
                /\ Finish(i, "true", "not running", Log(e, "remove_pid", 0))
           ELSE /\ Goto(i, [ctx[i] EXCEPT !.pc = "k_term", !.pid = pid], e)
                /\ UNCHANGED pidFile
    /\ UNCHANGED <<logFile, osvars, sessvars, calls, envn>>

\* os.kill(pid, signal.SIGTERM)
StopTerm(i) ==
    /\ ctx[i].pc = "k_term"
    /\ LET e == Log(eff[i], "term", ctx[i].pid)
       IN  IF KillRaises(ctx[i].pid)
           THEN Goto(i, [ctx[i] EXCEPT !.pc = "k_except"], Log(e, "raise", 0))
           ELSE Goto(i, [ctx[i] EXCEPT !.pc = "k_poll", !.polls = 0], e)
    /\ UNCHANGED <<fsvars, osvars, sessvars, calls, envn>>

\* StopPoll with a fault: the loop has no else clause, so a poll that finds the
\* process dead leaves the loop into the forceful kill.
StopPollNoElse(i) ==
    /\ ctx[i].pc = "k_poll"
    /\ ctx[i].polls < PollMax
    /\ LET e == Probe(eff[i], ctx[i].pid)
       IN  IF ~is_running(ctx[i].pid)
           THEN Goto(i, [ctx[i] EXCEPT !.pc = "k_kill"], e)
           ELSE Goto(i, [ctx[i] EXCEPT !.polls = @ + 1,
                                       !.pc = IF ctx[i].polls + 1 = PollMax
                                              THEN "k_kill" ELSE "k_poll"],
                     Log(e, "sleep", 0))
    /\ UNCHANGED <<fsvars, osvars, sessvars, calls, envn>>

\* StopPoll with a fault: a while loop without a count.
StopPollUnbounded(i) ==
    /\ ctx[i].pc = "k_poll"
    /\ IF ~is_running(ctx[i].pid)
       THEN Goto(i, [ctx[i] EXCEPT !.pc = "k_remove"], Probe(eff[i], ctx[i].pid))
       ELSE Goto(i, ctx[i], eff[i])
    /\ UNCHANGED <<fsvars, osvars, sessvars, calls, envn>>

\* for _ in range(10): if not is_running(pid): break; time.sleep(0.1)
\* One iteration; the exhausted loop runs its else clause.
StopPoll(i) ==
    /\ ctx[i].pc = "k_poll"
    /\ ctx[i].polls < PollMax
    /\ LET e == Probe(eff[i], ctx[i].pid)
       IN  IF ~is_running(ctx[i].pid)
           THEN Goto(i, [ctx[i] EXCEPT !.pc = "k_remove"], e)
           ELSE Goto(i, [ctx[i] EXCEPT !.polls = @ + 1,
                                       !.pc = IF ctx[i].polls + 1 = PollMax
                                              THEN "k_kill" ELSE "k_poll"],
                     Log(e, "sleep", 0))
    /\ UNCHANGED <<fsvars, osvars, sessvars, calls, envn>>

\* else: os.kill(pid, signal.SIGKILL)
StopKill(i) ==
    /\ ctx[i].pc = "k_kill"
    /\ LET pid == ctx[i].pid
           e == Log(eff[i], "kill", pid)
       IN  IF KillRaises(pid)
           THEN /\ Goto(i, [ctx[i] EXCEPT !.pc = "k_except"], Log(e, "raise", 0))
                /\ UNCHANGED osvars
           ELSE /\ Goto(i, [ctx[i] EXCEPT !.pc = "k_remove"], e)
                /\ proc' = [proc EXCEPT ![pid] = IF @ = "zombie" THEN @ ELSE Exited(pid)]
                /\ listener' = IF listener = pid THEN 0 ELSE listener
    /\ UNCHANGED <<fsvars, sessvars, calls, envn>>

\* StopRemove with a fault: the record is removed only when it still names the
\* pid the call read.
StopRemoveOwnOnly(i) ==
    /\ ctx[i].pc = "k_remove"
    /\ IF read_pid(ctx[i].svc) = ctx[i].pid
       THEN /\ pidFile' = remove_pid(ctx[i].svc)
            /\ Finish(i, "true", "stopped", Log(eff[i], "remove_pid", 0))
       ELSE /\ UNCHANGED pidFile
            /\ Finish(i, "true", "stopped", eff[i])
    /\ UNCHANGED <<logFile, osvars, sessvars, calls, envn>>

\* remove_pid(service); return True
StopRemove(i) ==
    /\ ctx[i].pc = "k_remove"
    /\ pidFile' = remove_pid(ctx[i].svc)
    /\ Finish(i, "true", "stopped", Log(eff[i], "remove_pid", 0))
    /\ UNCHANGED <<logFile, osvars, sessvars, calls, envn>>

\* StopExcept with a fault: the handler reports the error and keeps the record.
StopExceptKeepsRecord(i) ==
    /\ ctx[i].pc = "k_except"
    /\ Finish(i, "false", "error", eff[i])
    /\ UNCHANGED <<fsvars, osvars, sessvars, calls, envn>>

\* except OSError: remove_pid(service); return False
StopExcept(i) ==
    /\ ctx[i].pc = "k_except"
    /\ pidFile' = remove_pid(ctx[i].svc)
    /\ Finish(i, "false", "error", Log(eff[i], "remove_pid", 0))
    /\ UNCHANGED <<logFile, osvars, sessvars, calls, envn>>

stop_service(i) ==
    \/ StopCheck(i)
    \/ StopTerm(i)
    \/ StopPoll(i)
    \/ StopKill(i)
    \/ StopRemove(i)
    \/ StopExcept(i)

\* ---------------------------------------------------------------- texts
\* A text is a sequence of tokens; a token is one of the separators "/", "_",
\* "-" or a piece of text that holds none of them.  A file name is a text
\* whose last token is its suffix.
replace(s, old, new) == [j \in DOMAIN s |-> IF s[j] = old THEN new ELSE s[j]]

TaskPlan == <<"task_plan", ".md">>
Findings == <<"findings", ".md">>
Template == <<"TEMPLATE", "_", "task_plan", ".md">>
Notes == <<"notes", ".txt">>

\* ACTIVE_DIR.glob('*.md') and f.name.startswith('TEMPLATE')
IsMd(f) == f[Len(f)] = ".md"
IsTemplate(f) == f[1] = "TEMPLATE"
Documents(dir) == {f \in DOMAIN dir : IsMd(f) /\ ~IsTemplate(f)}

\* A document is a sequence of lines.  A line of kind "task" is '# Task: '
\* followed by its text, at the start of the line; a line of kind "sub" holds
\* '# Task: ' and its text further right ('## Task: ...'); a line of kind
\* "text" holds no '# Task:'.  The text of a "task" line is never empty.
Line(k, text) == [k |-> k, text |-> text]
Placeholder == <<"[Your task name]">>
\* datetime.now().strftime('%Y%m%d') and strftime('%Y-%m-%d')
DateCompact == "20261103"
DateDashed == "2026-11-03"

\* '# Task:' in content, '[Your task name]' in content
HasHeader(content) == \E j \in DOMAIN content : content[j].k \in {"task", "sub"}
HasPlaceholder(content) == \E j \in DOMAIN content : content[j].text = Placeholder

HasSessionIn(dir) ==
    /\ TaskPlan \in DOMAIN dir
    /\ HasHeader(dir[TaskPlan])
    /\ ~HasPlaceholder(dir[TaskPlan])

has_active_session == HasSessionIn(active)

\* None, as returned by get_session_name and get_git_branch.
NoName == <<>>

\* re.search(r'^# Task:\s*(.+)$', content, re.MULTILINE): the first "task"
\* line decides.
SessionNameIn(dir) ==
    IF TaskPlan \notin DOMAIN dir THEN NoName
    ELSE LET c == dir[TaskPlan]
             T == {j \in DOMAIN c : c[j].k = "task"}
         IN  IF T = {} THEN NoName
             ELSE LET name == c[CHOOSE j \in T : \A k \in T : j <= k].text
                  IN  IF name # <<>> /\ name # Placeholder THEN name ELSE NoName

get_session_name == SessionNameIn(active)

\* What get_git_branch and get_project_name may return.
Branches == {NoName, <<"main">>, <<"master">>, <<"feature", "/", "log", "_", "in">>}
Projects == {<<"my", "_", "engine">>}

\* DerivedName with a fault: the project and the date are never used.
DerivedNameNoFallback(branch, project) ==
    LET b == IF branch = NoName THEN <<"main">> ELSE branch
    IN  replace(replace(b, "/", "-"), "_", "-")

\* branch = get_git_branch() or 'main'; the separators are replaced; on main or
\* master the name is the project and the date.
DerivedName(branch, project) ==
    LET b == IF branch = NoName THEN <<"main">> ELSE branch
        n == replace(replace(b, "/", "-"), "_", "-")
    IN  IF n \in {<<"main">>, <<"master">>}
        THEN project \o <<"-", DateCompact>>
        ELSE n

\* The marker create_auto_session writes.
MarkerText(session_name, branch) ==
    <<Line("task", session_name), Line("text", <<"Session ID">>),
      Line("text", <<"Auto-created session for branch">> \o branch)>>

\* archive/<date>_<session-name>: f"{date}_{session_name}"
DestName(session_name) ==
    <<DateDashed, "_">> \o (IF session_name = NoName THEN <<"None">> ELSE session_name)

FinishS(i, val, msg, e) ==
    /\ ctx' = [ctx EXCEPT ![i] = Returned(@, val, msg)]
    /\ eff' = [eff EXCEPT ![i] = e]
    /\ UNCHANGED hist

\* The persisted files.
Snapshot == <<pidFile, logFile, active, archive, hookFile, memory>>

\* ---------------------------------------------------- create_auto_session
CallCreate(i) ==
    /\ ctx[i].top = "idle"
    /\ calls < LifeCalls
    /\ calls' = calls + 1
    /\ Goto(i, Enter([IdleCtx EXCEPT !.top = "create"], "create", "c_derive", "none"),
            [NoEff EXCEPT !.docs0 = active])
    /\ UNCHANGED <<fsvars, osvars, sessvars, envn>>

\* branch, project, session_name
CreateDerive(i) ==
    /\ ctx[i].pc = "c_derive"
    /\ \E branch \in Branches, project \in Projects :
          Goto(i, [ctx[i] EXCEPT !.pc = "c_init",
                                 !.branch = IF branch = NoName THEN <<"main">> ELSE branch,
                                 !.sname = DerivedName(branch, project)],
               Log(eff[i], "git", 0))
    /\ UNCHANGED <<fsvars, osvars, sessvars, calls, envn>>

\* init-session.sh <session_name>: it creates the marker document unless one
\* exists ("created"), or it does not produce one ("nothing").
InitScript(dir, session_name, outcome) ==
    IF outcome = "created" /\ TaskPlan \notin DOMAIN dir
    THEN Put(dir, TaskPlan, <<Line("task", session_name), Line("text", <<"Goal">>)>>)
    ELSE dir

\* if init_script.exists(): subprocess.run(['bash', init_script, session_name])
CreateInit(i) ==
    /\ ctx[i].pc = "c_init"
    /\ \/ \* the script is absent
          /\ Goto(i, [ctx[i] EXCEPT !.pc = "c_write"], eff[i])
          /\ UNCHANGED active
       \/ \E outcome \in {"created", "nothing"} :
            /\ active' = InitScript(active, ctx[i].sname, outcome)
            /\ Goto(i, [ctx[i] EXCEPT !.pc = "c_write"], Log(eff[i], "init_script", 0))
    /\ UNCHANGED <<fsvars, osvars, archive, hookFile, memory, calls, envn>>

CreateWriteAlways(i) ==
    /\ ctx[i].pc = "c_write"
    /\ active' = Put(active, TaskPlan, MarkerText(ctx[i].sname, ctx[i].branch))
    /\ FinishS(i, "name", "created", Log(eff[i], "write_marker", 0))
    /\ UNCHANGED <<fsvars, osvars, archive, hookFile, memory, calls, envn>>

\* if not task_plan.exists() or '[Your task name]' in task_plan.read_text():
\*     task_plan.write_text(...); return session_name
CreateWrite(i) ==
    /\ ctx[i].pc = "c_write"
    /\ IF TaskPlan \notin DOMAIN active \/ HasPlaceholder(active[TaskPlan])
       THEN /\ active' = Put(active, TaskPlan, MarkerText(ctx[i].sname, ctx[i].branch))
            /\ FinishS(i, "name", "created", Log(eff[i], "write_marker", 0))
       ELSE /\ FinishS(i, "name", "created", eff[i])
            /\ UNCHANGED active
    /\ UNCHANGED <<fsvars, osvars, archive, hookFile, memory, calls, envn>>

create_auto_session(i) ==
    \/ CreateDerive(i)
    \/ CreateInit(i)
    \/ CreateWrite(i)

\* -------------------------------------------------------- archive_session
CallArchive(i) ==
    /\ ctx[i].top = "idle"
    /\ calls < LifeCalls
    /\ calls' = calls + 1
    /\ Goto(i, Enter([IdleCtx EXCEPT !.top = "archive", !.snap = Snapshot],
                      "archive", "r_check", "none"),
            [NoEff EXCEPT !.docs0 = active])
    /\ UNCHANGED <<fsvars, osvars, sessvars, envn>>

ArchCheckNoGuard(i) ==
    /\ ctx[i].pc = "r_check"
    /\ Goto(i, [ctx[i] EXCEPT !.pc = "r_summary", !.sname = get_session_name], eff[i])
    /\ UNCHANGED <<fsvars, osvars, sessvars, calls, envn>>

\* if not has_active_session(): return False; session_name = get_session_name()
ArchCheck(i) ==
    /\ ctx[i].pc = "r_check"
    /\ IF ~has_active_session
       THEN FinishS(i, "false", "no session", eff[i])
       ELSE Goto(i, [ctx[i] EXCEPT !.pc = "r_summary", !.sname = get_session_name], eff[i])
    /\ UNCHANGED <<fsvars, osvars, sessvars, calls, envn>>

ArchSummaryFatal(i) ==
    /\ ctx[i].pc = "r_summary"
    /\ \E outcome \in {"absent", "ok", "fail", "raise"} :
          IF outcome \in {"fail", "raise"}
          THEN FinishS(i, "false", "summary failed", Log(eff[i], "summary_" \o outcome, 0))
          ELSE Goto(i, [ctx[i] EXCEPT !.pc = "r_script"],
                    IF outcome = "absent" THEN eff[i]
                    ELSE Log(eff[i], "summary_" \o outcome, 0))
    /\ UNCHANGED <<fsvars, osvars, sessvars, calls, envn>>

\* session_summarizer.py --format yaml, when it exists: it prints the summary
\* and writes no file; a non-zero exit and an exception are swallowed.
ArchSummary(i) ==
    /\ ctx[i].pc = "r_summary"
    /\ \E outcome \in {"absent", "ok", "fail", "raise"} :
          Goto(i, [ctx[i] EXCEPT !.pc = "r_script"],
               IF outcome = "absent" THEN eff[i]
               ELSE Log(eff[i], "summary_" \o outcome, 0))
    /\ UNCHANGED <<fsvars, osvars, sessvars, calls, envn>>

\* archive-task.sh exiting 0: the dated directory is built, every document
\* that is no template is copied into it and deleted from the active
\* directory.
ScriptArchive(arch, dir, dest) ==
    LET old == IF dest \in DOMAIN arch THEN arch[dest] ELSE EmptyDir
    IN  Put(arch, dest,
            [f \in DOMAIN old \cup Documents(dir) |->
                IF f \in Documents(dir) THEN dir[f] ELSE old[f]])
ScriptClear(dir) == [f \in DOMAIN dir \ Documents(dir) |-> dir[f]]

\* if archive_script.exists(): run it; returncode 0: return True; else the
\* archive is made here.  Without the script: return False.
ArchScript(i) ==
    /\ ctx[i].pc = "r_script"
    /\ \/ \* the script is absent
          /\ FinishS(i, "false", "not archived", eff[i])
          /\ UNCHANGED <<active, archive>>
       \/ \* the script exits 0
          /\ archive' = ScriptArchive(archive, active, DestName(ctx[i].sname))
          /\ active' = ScriptClear(active)
          /\ FinishS(i, "true", "archived", Log(eff[i], "archive_script", 0))
       \/ \* the script exits non-zero
          /\ Goto(i, [ctx[i] EXCEPT !.pc = "r_mkdir"], Log(eff[i], "archive_script", 1))
          /\ UNCHANGED <<active, archive>>
    /\ UNCHANGED <<fsvars, osvars, hookFile, memory, calls, envn>>

\* archive_dir.mkdir(exist_ok=True); if not dest.exists(): dest.mkdir() ...
\* When dest exists the function falls through to return False.  A mkdir the
\* file system refuses (archive is no directory, or cannot be written) raises
\* OSError, which nothing catches.
ArchMkdirNoGuard(i) ==
    /\ ctx[i].pc = "r_mkdir"
    /\ archive' = Put(archive, DestName(ctx[i].sname), EmptyDir)
    /\ Goto(i, [ctx[i] EXCEPT !.pc = "r_copy", !.todo = Documents(active)],
            Log(eff[i], "mkdir", 0))
    /\ UNCHANGED <<fsvars, osvars, active, hookFile, memory, calls, envn>>

ArchMkdir(i) ==
    /\ ctx[i].pc = "r_mkdir"
    /\ LET dest == DestName(ctx[i].sname)
       IN  \/ /\ Raise(i, Log(eff[i], "mkdir_fail", 0))
              /\ UNCHANGED archive
           \/ IF dest \in DOMAIN archive
              THEN /\ FinishS(i, "false", "not archived", Log(eff[i], "dest_exists", 0))
                   /\ UNCHANGED archive
              ELSE /\ archive' = Put(archive, dest, EmptyDir)
                   /\ Goto(i, [ctx[i] EXCEPT !.pc = "r_copy", !.todo = Documents(active)],
                           Log(eff[i], "mkdir", 0))
    /\ UNCHANGED <<fsvars, osvars, active, hookFile, memory, calls, envn>>

\* A variant that moves each document: it is deleted as soon as it is copied.
ArchCopyMoves(i) ==
    /\ ctx[i].pc = "r_copy"
    /\ LET dest == DestName(ctx[i].sname)
       IN  IF ctx[i].todo = {}
           THEN /\ Goto(i, [ctx[i] EXCEPT !.pc = "r_delete", !.todo = Documents(active)],
                        eff[i])
                /\ UNCHANGED <<active, archive>>
           ELSE \E f \in ctx[i].todo :
                  /\ archive' = Put(archive, dest, Put(archive[dest], f, active[f]))
                  /\ active' = Del(active, f)
                  /\ Goto(i, [ctx[i] EXCEPT !.todo = @ \ {f}],
                          Log(Log(eff[i], "copy", 0), "unlink", 0))
    /\ UNCHANGED <<fsvars, osvars, hookFile, memory, calls, envn>>

\* for f in ACTIVE_DIR.glob('*.md'): if not template: shutil.copy(f, dest / f.name)
\* One file a step, in the order the directory is listed; after the last one
\* the second loop lists the directory again.
ArchCopy(i) ==
    /\ ctx[i].pc = "r_copy"
    /\ LET dest == DestName(ctx[i].sname)
       IN  IF ctx[i].todo = {}
           THEN /\ Goto(i, [ctx[i] EXCEPT !.pc = "r_delete", !.todo = Documents(active)],
                        eff[i])
                /\ UNCHANGED archive
           ELSE \E f \in ctx[i].todo :
                  /\ archive' = Put(archive, dest, Put(archive[dest], f, active[f]))
                  /\ Goto(i, [ctx[i] EXCEPT !.todo = @ \ {f}], Log(eff[i], "copy", 0))
    /\ UNCHANGED <<fsvars, osvars, active, hookFile, memory, calls, envn>>

\* for f in ACTIVE_DIR.glob('*.md'): if not template: f.unlink(); return True
ArchDelete(i) ==
    /\ ctx[i].pc = "r_delete"
    /\ IF ctx[i].todo = {}
       THEN /\ FinishS(i, "true", "archived", eff[i])
            /\ UNCHANGED active
       ELSE \E f \in ctx[i].todo :
              /\ active' = Del(active, f)
              /\ Goto(i, [ctx[i] EXCEPT !.todo = @ \ {f}], Log(eff[i], "unlink", 0))
    /\ UNCHANGED <<fsvars, osvars, archive, hookFile, memory, calls, envn>>

archive_session(i) ==
    \/ ArchCheck(i)
    \/ ArchSummary(i)
    \/ ArchScript(i)
    \/ ArchMkdir(i)
    \/ ArchCopy(i)
    \/ ArchDelete(i)

\* --------------------------------------------------------------- activate
CallActivate(i) ==
    /\ ctx[i].top = "idle"
    /\ calls < LifeCalls
    /\ calls' = calls + 1
    /\ Goto(i, [IdleCtx EXCEPT !.top = "activate", !.op = "activate", !.pc = "a_begin",
                               !.snap = Snapshot],
            NoEff)
    /\ UNCHANGED <<fsvars, osvars, sessvars, envn>>

\* A variant that calls create_auto_session whatever the marker holds.
ActBeginAlwaysCreates(i) ==
    /\ ctx[i].pc = "a_begin"
    /\ Goto(i, Enter(ctx[i], "create", "c_derive", "none"),
            [NoEff EXCEPT !.docs0 = active])
    /\ UNCHANGED <<fsvars, osvars, sessvars, calls, envn>>

\* ensure_dirs(); if has_active_session(): session_name = get_session_name()
\* else: session_name = create_auto_session()
ActBegin(i) ==
    /\ ctx[i].pc = "a_begin"
    /\ IF has_active_session
       THEN Goto(i, [ctx[i] EXCEPT !.pc = "a_services", !.idx = 1,
                                   !.session = get_session_name],
                 eff[i])
       ELSE Goto(i, Enter(ctx[i], "create", "c_derive", "none"),
                 [NoEff EXCEPT !.docs0 = active])
    /\ UNCHANGED <<fsvars, osvars, sessvars, calls, envn>>

\* session_name = create_auto_session()
ActCreated(i) ==
    /\ ctx[i].pc = "a_created"
    /\ Goto(i, [ctx[i] EXCEPT !.pc = "a_services", !.idx = 1, !.session = ctx[i].sname],
            eff[i])
    /\ UNCHANGED <<fsvars, osvars, sessvars, calls, envn>>

\* for service, config in SERVICES.items(): start_service(service, config)
ActServices(i) ==
    /\ ctx[i].pc = "a_services"
    /\ LET s == SERVICES[ctx[i].idx]
       IN  Goto(i, [Enter(ctx[i], "start", "s_check", s) EXCEPT !.called = Append(@, s)],
                [NoEff EXCEPT !.rec0 = pidFile[s]])
    /\ UNCHANGED <<fsvars, osvars, sessvars, calls, envn>>

\* A variant that leaves the loop at the first service that fails to start.
ActStartedStops(i) ==
    /\ ctx[i].pc = "a_started"
    /\ Goto(i, [ctx[i] EXCEPT !.all_started = @ /\ ctx[i].ret = "true",
                              !.rets = Append(@, ctx[i].ret),
                              !.idx = @ + 1,
                              !.pc = IF ctx[i].idx < Len(SERVICES) /\ ctx[i].ret = "true"
                                     THEN "a_services" ELSE "a_wait"],
            eff[i])
    /\ UNCHANGED <<fsvars, osvars, sessvars, calls, envn>>

\* if not start_service(service, config): all_started = False
ActStarted(i) ==
    /\ ctx[i].pc = "a_started"
    /\ Goto(i, [ctx[i] EXCEPT !.all_started = @ /\ ctx[i].ret = "true",
                              !.rets = Append(@, ctx[i].ret),
                              !.idx = @ + 1,
                              !.pc = IF ctx[i].idx < Len(SERVICES)
                                     THEN "a_services" ELSE "a_wait"],
            eff[i])
    /\ UNCHANGED <<fsvars, osvars, sessvars, calls, envn>>

\* for _ in range(20): if check_port(web_port): break; time.sleep(0.5)
ActWait(i) ==
    /\ ctx[i].pc = "a_wait"
    /\ IF check_port(WebPort) \/ ctx[i].polls = WebWaitMax
       THEN Goto(i, [ctx[i] EXCEPT !.pc = "a_hooks"], eff[i])
       ELSE Goto(i, [ctx[i] EXCEPT !.polls = @ + 1], eff[i])
    /\ UNCHANGED <<fsvars, osvars, sessvars, calls, envn>>

\* setup_hooks(); the final report; return all_started;
\* sys.exit(0 if success else 1)
ActFinish(i) ==
    /\ ctx[i].pc = "a_hooks"
    /\ hookFile' = TRUE
    /\ Goto(i, [ctx[i] EXCEPT !.pc = "done", !.polls = 0,
                              !.exit = IF ctx[i].all_started THEN 0 ELSE 1],
            eff[i])
    /\ UNCHANGED <<fsvars, osvars, active, archive, memory, calls, envn>>

activate(i) ==
    \/ ActBegin(i)
    \/ ActCreated(i)
    \/ ActServices(i)
    \/ ActStarted(i)
    \/ ActWait(i)
    \/ ActFinish(i)

\* ------------------------------------------------------------- deactivate
CallDeactivate(i) ==
    /\ ctx[i].top = "idle"
    /\ calls < LifeCalls
    /\ calls' = calls + 1
    /\ Goto(i, [IdleCtx EXCEPT !.top = "deactivate", !.op = "deactivate",
                               !.pc = "d_begin", !.snap = Snapshot],
            NoEff)
    /\ UNCHANGED <<fsvars, osvars, sessvars, envn>>

\* if has_active_session(): archive_session()
DeactBegin(i) ==
    /\ ctx[i].pc = "d_begin"
    /\ IF has_active_session
       THEN Goto(i, Enter(ctx[i], "archive", "r_check", "none"),
                 [NoEff EXCEPT !.docs0 = active])
       ELSE Goto(i, [ctx[i] EXCEPT !.pc = "d_services", !.idx = 1, !.arch = "skipped"],
                 eff[i])
    /\ UNCHANGED <<fsvars, osvars, sessvars, calls, envn>>

\* The value of archive_session() is dropped.
DeactArchived(i) ==
    /\ ctx[i].pc = "d_archived"
    /\ Goto(i, [ctx[i] EXCEPT !.pc = "d_services", !.idx = 1, !.arch = ctx[i].ret],
            eff[i])
    /\ UNCHANGED <<fsvars, osvars, sessvars, calls, envn>>

\* for service, config in SERVICES.items(): stop_service(service, config)
DeactServices(i) ==
    /\ ctx[i].pc = "d_services"
    /\ LET s == SERVICES[ctx[i].idx]
       IN  Goto(i, [Enter(ctx[i], "stop", "k_check", s) EXCEPT !.called = Append(@, s)],
                [NoEff EXCEPT !.rec0 = pidFile[s]])
    /\ UNCHANGED <<fsvars, osvars, sessvars, calls, envn>>

\* The value of stop_service() is dropped; after the last service the report
\* is printed and main returns (exit status 0).
DeactStopped(i) ==
    /\ ctx[i].pc = "d_stopped"
    /\ Goto(i, [ctx[i] EXCEPT !.rets = Append(@, ctx[i].ret),
                              !.idx = @ + 1,
                              !.pc = IF ctx[i].idx < Len(SERVICES)
                                     THEN "d_services" ELSE "done",
                              !.exit = IF ctx[i].idx < Len(SERVICES) THEN None ELSE 0],
            eff[i])
    /\ UNCHANGED <<fsvars, osvars, sessvars, calls, envn>>

deactivate(i) ==
    \/ DeactBegin(i)
    \/ DeactArchived(i)
    \/ DeactServices(i)
    \/ DeactStopped(i)

\* ----------------------------------------------------------------- status
CallStatus(i) ==
    /\ ctx[i].top = "idle"
    /\ calls < LifeCalls
    /\ calls' = calls + 1
    /\ Goto(i, [IdleCtx EXCEPT !.top = "status", !.op = "status", !.pc = "t_session",
                               !.snap = Snapshot],
            NoEff)
    /\ UNCHANGED <<fsvars, osvars, sessvars, envn>>

\* if has_active_session(): session_name = get_session_name()
StatusSession(i) ==
    /\ ctx[i].pc = "t_session"
    /\ Goto(i, [ctx[i] EXCEPT !.pc = "t_services", !.idx = 1,
                              !.session = IF has_active_session
                                          THEN get_session_name ELSE NoName],
            eff[i])
    /\ UNCHANGED <<fsvars, osvars, sessvars, calls, envn>>

\* pid = read_pid(service); running = pid and is_running(pid)
StatusService(i) ==
    /\ ctx[i].pc = "t_services"
    /\ LET s == SERVICES[ctx[i].idx]
           pid == read_pid(s)
           running == Truthy(pid) /\ is_running(pid)
       IN  IF Truthy(pid) /\ KillOverflows(pid)
           THEN Raise(i, Log(eff[i], "overflow", 0))
           ELSE Goto(i, [ctx[i] EXCEPT !.any_running = @ \/ running,
                                       !.called = Append(@, s),
                                       !.idx = @ + 1,
                                       !.pc = IF ctx[i].idx < Len(SERVICES)
                                              THEN "t_services" ELSE "t_report"],
                     IF Truthy(pid) THEN Probe(eff[i], pid) ELSE eff[i])
    /\ UNCHANGED <<fsvars, osvars, sessvars, calls, envn>>

\* if any_running: check_port(web_port); the knowledge files are read; main
\* returns (exit status 0).
StatusReport(i) ==
    /\ ctx[i].pc = "t_report"
    /\ Goto(i, [ctx[i] EXCEPT !.pc = "done", !.exit = 0],
            IF ctx[i].any_running
            THEN Log(eff[i], IF check_port(WebPort) THEN "port_busy" ELSE "port_free", listener)
            ELSE eff[i])
    /\ UNCHANGED <<fsvars, osvars, sessvars, calls, envn>>

status(i) ==
    \/ StatusSession(i)
    \/ StatusService(i)
    \/ StatusReport(i)

\* The caller of a direct call takes the result, or the command has exited:
\* the invocation is over.
Done(i) ==
    /\ ctx[i].pc = "done"
    /\ ctx' = [ctx EXCEPT ![i] = IdleCtx]
    /\ eff' = [eff EXCEPT ![i] = NoEff]
    /\ UNCHANGED <<fsvars, osvars, sessvars, hist, calls, envn>>

\* ---------------------------------------------------------- prompt tracker
\* (scripts/prompt_tracker.py)  active/.prompts_log.yaml and
\* prompts_history.yaml in the memory directory.
PROMPTS_LOG == <<".prompts_log", ".yaml">>
PROMPTS_HISTORY == <<"prompts_history", ".yaml">>

\* yaml.dump(prompts, f): one item of the YAML list per prompt, in order.
dump(prompts) == [j \in DOMAIN prompts |-> Line("item", prompts[j])]

\* The body of load_prompts_log and load_prompts_history: no file, [];
\* yaml.safe_load(f), the data if it is a list (an empty file is None), else
\* []; a document that does not parse, [].
LoadList(dir, f) ==
    IF f \notin DOMAIN dir THEN <<>>
    ELSE IF \A j \in DOMAIN dir[f] : dir[f][j].k = "item"
         THEN [j \in DOMAIN dir[f] |-> dir[f][j].text]
         ELSE <<>>

load_prompts_log == LoadList(active, PROMPTS_LOG)
load_prompts_history == LoadList(memory, PROMPTS_HISTORY)

\* history = history[-history_limit:]; yaml.dump(history, f).  The slice
\* starts at len - limit (not below 0) for a positive limit and at index
\* -limit (not beyond len) otherwise: -0 is index 0.
save_prompts_history(history, history_limit) ==
    LET n == Len(history)
        start == IF history_limit > 0
                 THEN (IF n > history_limit THEN n - history_limit ELSE 0)
                 ELSE (IF 0 - history_limit < n THEN 0 - history_limit ELSE n)
    IN  Put(memory, PROMPTS_HISTORY, dump(SubSeq(history, start + 1, n)))

\* Entry of archive_prompts(session_id, archive_dir): archive_dir is None or
\* a directory of the archive.
CallArchivePrompts(i) ==
    /\ ctx[i].top = "idle"
    /\ calls < MaxCalls
    /\ calls' = calls + 1
    /\ \E dir \in {NoName, DestName(<<"old", "-", "work">>)} :
          Goto(i, [IdleCtx EXCEPT !.top = "archive_prompts", !.op = "archive_prompts",
                                  !.pc = "p_load", !.archive_dir = dir,
                                  !.snap = Snapshot],
               NoEff)
    /\ UNCHANGED <<fsvars, osvars, sessvars, envn>>

\* prompts = load_prompts_log(); if not prompts: return 0
PromptsLoad(i) ==
    /\ ctx[i].pc = "p_load"
    /\ IF load_prompts_log = <<>>
       THEN FinishS(i, "count", "archived", eff[i])
       ELSE Goto(i, [ctx[i] EXCEPT !.pc = "p_file", !.prompts = load_prompts_log],
                 Log(eff[i], "load", Len(load_prompts_log)))
    /\ UNCHANGED <<fsvars, osvars, sessvars, calls, envn>>

\* if archive_dir: archive_dir.mkdir(parents=True, exist_ok=True);
\* yaml.dump(prompts) into archive_dir / 'prompts.yaml'.  Creating the
\* directory or opening the file may raise, which nothing catches.
PromptsFile(i) ==
    /\ ctx[i].pc = "p_file"
    /\ LET dir == ctx[i].archive_dir
           old == IF dir \in DOMAIN archive THEN archive[dir] ELSE EmptyDir
       IN  IF dir = NoName
           THEN /\ Goto(i, [ctx[i] EXCEPT !.pc = "p_history"], eff[i])
                /\ UNCHANGED archive
           ELSE \/ /\ archive' = Put(archive, dir,
                                      Put(old, <<"prompts", ".yaml">>, dump(ctx[i].prompts)))
                   /\ Goto(i, [ctx[i] EXCEPT !.pc = "p_history"],
                           Log(eff[i], "archive_file", 0))
                \/ /\ Raise(i, Log(eff[i], "archive_fail", 0))
                   /\ UNCHANGED archive
    /\ UNCHANGED <<fsvars, osvars, active, hookFile, memory, calls, envn>>

\* history = load_prompts_history(); history.extend(prompts);
\* save_prompts_history(history), with the history_limit of the
\* configuration.  Opening the file for writing may raise.
PromptsHistory(i) ==
    /\ ctx[i].pc = "p_history"
    /\ \/ \E history_limit \in 0..MaxLimit :
             /\ memory' = save_prompts_history(load_prompts_history \o ctx[i].prompts,
                                               history_limit)
             /\ Goto(i, [ctx[i] EXCEPT !.pc = "p_clear"],
                     Log(eff[i], "save_history", history_limit))
       \/ /\ Raise(i, Log(eff[i], "history_fail", 0))
          /\ UNCHANGED memory
    /\ UNCHANGED <<fsvars, osvars, active, archive, hookFile, calls, envn>>

\* clear_prompts_log(); return len(prompts)
PromptsClear(i) ==
    /\ ctx[i].pc = "p_clear"
    /\ active' = IF PROMPTS_LOG \in DOMAIN active THEN Del(active, PROMPTS_LOG) ELSE active
    /\ ctx' = [ctx EXCEPT ![i] = [Returned(@, "count", "archived")
                                    EXCEPT !.count = Len(ctx[i].prompts)]]
    /\ eff' = [eff EXCEPT ![i] = Log(@, "clear", 0)]
    /\ UNCHANGED <<fsvars, osvars, archive, hookFile, memory, hist, calls, envn>>

archive_prompts(i) ==
    \/ PromptsLoad(i)
    \/ PromptsFile(i)
    \/ PromptsHistory(i)
    \/ PromptsClear(i)

\* ------------------------------------------------------- operating system
\* A process exits (on its own, or because of a signal it was sent).
ProcExit(p) ==
    /\ envn < MaxEnv
    /\ proc[p] \notin {"none", "zombie"}
    /\ proc' = [proc EXCEPT ![p] = Exited(p)]
    /\ listener' = IF listener = p THEN 0 ELSE listener
    /\ envn' = envn + 1
    /\ UNCHANGED <<fsvars, sessvars, ctx, eff, hist, calls>>

\* A process that the manager did not spawn appears, owned by this user
\* ("other") or by another user ("foreign"); a free pid may be one a dead
\* service process had.
ExtSpawn(p, owner) ==
    /\ envn < MaxEnv
    /\ proc[p] = "none"
    /\ proc' = [proc EXCEPT ![p] = owner]
    /\ envn' = envn + 1
    /\ UNCHANGED <<fsvars, sessvars, listener, ctx, eff, hist, calls>>

\* A process starts listening on the web UI port.
Bind(p) ==
    /\ envn < MaxEnv
    /\ proc[p] \in {"web_ui", "other", "foreign"}
    /\ listener = 0
    /\ listener' = p
    /\ envn' = envn + 1
    /\ UNCHANGED <<fsvars, sessvars, proc, ctx, eff, hist, calls>>

\* A service process writes to its standard output: the log file of its
\* service, which it was spawned with and holds open whatever has happened to
\* the file since.
LogWrite(p) ==
    /\ envn < MaxEnv
    /\ proc[p] \in ServiceNames
    /\ p \notin logFile[proc[p]].from
    /\ logFile' = [logFile EXCEPT ![proc[p]] = OutputOf(@, p)]
    /\ envn' = envn + 1
    /\ UNCHANGED <<pidFile, osvars, sessvars, ctx, eff, hist, calls>>

Env ==
    \/ \E p \in Pids : ProcExit(p)
    \/ \E p \in Pids, owner \in {"other", "foreign"} : ExtSpawn(p, owner)
    \/ \E p \in Pids : Bind(p)
    \/ \E p \in Pids : LogWrite(p)

\* ---------------------------------------------------------- specification
\* A fresh installation, or one whose registry was left by an earlier run: a
\* record may be missing, unreadable (empty), or name a pid.
InitPidTexts == {NoFile, "", "2"}

InitServices ==
    /\ pidFile \in [ServiceNames -> InitPidTexts]
    /\ logFile = [s \in ServiceNames |-> NoLog]
    /\ proc = [p \in Pids |-> "none"]
    /\ listener = 0
    /\ ctx = [i \in Invokers |-> IdleCtx]
    /\ eff = [i \in Invokers |-> NoEff]
    /\ hist = [s \in ServiceNames |-> <<0, 0>>]
    /\ calls = 0
    /\ envn = 0

Init ==
    /\ InitServices
    /\ active = EmptyDir
    /\ archive = EmptyDir
    /\ hookFile = FALSE
    /\ memory = EmptyDir

\* One invoker calls start_service and stop_service directly.
Next ==
    \/ \E s \in ServiceNames : CallStart(1, s)
    \/ \E s \in ServiceNames : CallStop(1, s)
    \/ start_service(1)
    \/ stop_service(1)
    \/ Done(1)
    \/ Env

Spec == Init /\ [][Next]_vars

\* Two invocations of the manager run at once, each calling start_service;
\* nothing orders their steps.  Processes exit.
NextRace ==
    \/ \E i \in Invokers, s \in ServiceNames : CallStart(i, s)
    \/ \E i \in Invokers : start_service(i)
    \/ \E i \in Invokers : Done(i)
    \/ \E p \in Pids : ProcExit(p)

\* The registry the two find: no record, or a stale one for the web UI.
InitRace ==
    /\ Init
    /\ pidFile \in {[s \in ServiceNames |-> NoFile],
                    [s \in ServiceNames |-> IF s = "web_ui" THEN "2" ELSE NoFile]}

SpecRace == InitRace /\ [][NextRace]_vars

\* Two invocations of the manager run at once, one calling start_service, the
\* other stop_service; nothing orders their steps.  Processes exit.
NextStopStart ==
    \/ \E s \in ServiceNames : CallStart(1, s)
    \/ \E s \in ServiceNames : CallStop(2, s)
    \/ start_service(1)
    \/ stop_service(2)
    \/ \E i \in Invokers : Done(i)
    \/ \E p \in Pids : ProcExit(p)

SpecStopStart == InitRace /\ [][NextStopStart]_vars

\* The active-session directory an invocation may find: the template alone,
\* or the template, the session's other files and a marker, which is the
\* copied template (placeholder header), a document without any task header,
\* a session's marker, or a document whose only header is a sub-heading.
InitMarkers ==
    { <<Line("task", Placeholder), Line("text", <<"Goal">>)>>,
      <<Line("text", <<"Goal">>)>>,
      <<Line("task", <<"old", "-", "work">>), Line("text", <<"Goal">>)>>,
      <<Line("sub", <<"old", "-", "work">>), Line("text", <<"Goal">>)>> }

TemplateDir == Put(EmptyDir, Template, <<Line("task", Placeholder)>>)
WorkFiles ==
    Put(Put(TemplateDir, Findings, <<Line("text", <<"found">>)>>),
        Notes, <<Line("text", <<"note">>)>>)

InitActiveDirs ==
    {TemplateDir} \cup {Put(WorkFiles, TaskPlan, m) : m \in InitMarkers}

\* The archive an archive_session of the same day and session name has left.
OldArchive ==
    Put(EmptyDir, DestName(<<"old", "-", "work">>),
        Put(Put(EmptyDir, TaskPlan, <<Line("task", <<"old", "-", "work">>)>>),
            Findings, <<Line("text", <<"earlier">>)>>))

\* What an earlier invocation may have left: nothing; both services running
\* and recorded, the web UI listening; or a stale and an unreadable record.
InitLeft ==
    \/ /\ pidFile = [s \in ServiceNames |-> NoFile]
       /\ proc = [p \in Pids |-> "none"]
       /\ listener = 0
    \/ /\ pidFile = [s \in ServiceNames |-> IF s = "web_ui" THEN "1" ELSE "2"]
       /\ proc = [p \in Pids |-> IF p = 1 THEN "web_ui"
                                 ELSE IF p = 2 THEN "file_watcher" ELSE "none"]
       /\ listener = 1
    \/ /\ pidFile = [s \in ServiceNames |-> IF s = "web_ui" THEN "2" ELSE ""]
       /\ proc = [p \in Pids |-> "none"]
       /\ listener = 0

InitLifecycle ==
    /\ InitLeft
    /\ logFile = [s \in ServiceNames |-> NoLog]
    /\ ctx = [i \in Invokers |-> IdleCtx]
    /\ eff = [i \in Invokers |-> NoEff]
    /\ hist = [s \in ServiceNames |-> <<0, 0>>]
    /\ calls = 0
    /\ envn = 0
    /\ active \in InitActiveDirs
    /\ archive \in IF HasSessionIn(active) /\ pidFile = [s \in ServiceNames |-> NoFile]
                   THEN {EmptyDir, OldArchive} ELSE {EmptyDir}
    /\ hookFile = FALSE
    /\ memory = EmptyDir

\* One invoker runs the commands activate, deactivate and status, and calls
\* create_auto_session and archive_session directly; processes exit.
NextLifecycle ==
    \/ CallActivate(1)
    \/ CallDeactivate(1)
    \/ CallStatus(1)
    \/ CallCreate(1)
    \/ CallArchive(1)
    \/ activate(1)
    \/ deactivate(1)
    \/ status(1)
    \/ create_auto_session(1)
    \/ archive_session(1)
    \/ start_service(1)
    \/ stop_service(1)
    \/ Done(1)
    \/ (envn < LifeEnv /\ \E p \in Pids : ProcExit(p))

SpecLifecycle == InitLifecycle /\ [][NextLifecycle]_vars

\* The interpreter runs the invoked command on: every statement that can be
\* executed is executed (each external command it waits for returns).
Program(i) ==
    \/ activate(i)
    \/ deactivate(i)
    \/ status(i)
    \/ create_auto_session(i)
    \/ archive_session(i)
    \/ start_service(i)
    \/ stop_service(i)

\* The commands activate and deactivate alone, with both services running,
\* on an active directory with and without a session.
InitLive ==
    /\ InitLifecycle
    /\ listener = 1
    /\ \/ active = TemplateDir
       \/ HasSessionIn(active) /\ SessionNameIn(active) # NoName

NextLive ==
    \/ CallActivate(1)
    \/ CallDeactivate(1)
    \/ activate(1)
    \/ deactivate(1)
    \/ create_auto_session(1)
    \/ archive_session(1)
    \/ start_service(1)
    \/ stop_service(1)
    \/ Done(1)
    \/ (envn < LifeEnv /\ \E p \in Pids : ProcExit(p))

SpecLifecycleLive == InitLive /\ [][NextLive]_vars /\ WF_vars(Program(1))

\* The status command run on every registry: records absent, empty, naming a
\* dead process, a live one, one of another user, or holding a number no
\* pid_t holds.
InitStatus ==
    /\ pidFile \in [ServiceNames -> {NoFile, "", "2", Huge}]
    /\ logFile = [s \in ServiceNames |-> NoLog]
    /\ proc \in [Pids -> {"none", "web_ui", "foreign"}]
    /\ listener \in {0} \cup {p \in Pids : proc[p] # "none"}
    /\ ctx = [i \in Invokers |-> IdleCtx]
    /\ eff = [i \in Invokers |-> NoEff]
    /\ hist = [s \in ServiceNames |-> <<0, 0>>]
    /\ calls = 0
    /\ envn = 0
    /\ active \in InitActiveDirs
    /\ archive = EmptyDir
    /\ hookFile = FALSE
    /\ memory = EmptyDir

NextStatus ==
    \/ CallStatus(1)
    \/ status(1)
    \/ Done(1)
    \/ (envn < LifeEnv /\ \E p \in Pids : ProcExit(p))

SpecStatus == InitStatus /\ [][NextStatus]_vars

\* The prompt tracker's archive command run on every prompt log and prompt
\* history: file absent, empty, holding a document that is no list, or a list
\* of prompts; on an archive with and without the directory it is given.
InitPrompts ==
    /\ InitServices
    /\ pidFile = [s \in ServiceNames |-> NoFile]
    /\ hookFile = FALSE
    /\ archive \in {EmptyDir, OldArchive}
    /\ LET Lists == UNION {[1..n -> {<<"a">>, <<"b">>}] : n \in 0..MaxLog}
           Docs == {dump(l) : l \in Lists} \cup {<<Line("text", <<"oops">>)>>}
       IN  /\ active \in {WorkFiles} \cup {Put(WorkFiles, PROMPTS_LOG, d) : d \in Docs}
           /\ memory \in {EmptyDir} \cup {Put(EmptyDir, PROMPTS_HISTORY, d) : d \in Docs}

NextPrompts ==
    \/ CallArchivePrompts(1)
    \/ archive_prompts(1)
    \/ Done(1)

SpecPrompts == InitPrompts /\ [][NextPrompts]_vars

\* ================================================================ claims
\* The states in which a call of start_service or stop_service has returned
\* and its result has not yet been consumed.
RetPcs == {"done", "a_started", "d_stopped", "a_created", "d_archived"}
ReturnedFrom(i, op) == ctx[i].op = op /\ ctx[i].pc \in RetPcs /\ ctx[i].ret # "raise"

\* The pid a service's record names (0 when it names none), and whether the
\* liveness probe of the operating system succeeds on a pid.
RecordedPid(s) ==
    IF \E p \in Pids : pidFile[s] = PidStr[p]
    THEN CHOOSE p \in Pids : pidFile[s] = PidStr[p]
    ELSE 0
Signalable(p) == p \in Pids /\ proc[p] \notin {"none", "foreign"}
RecordLive(s) == Signalable(RecordedPid(s))

\* ------------------------------------------------------------------- C1
\* C1 (idempotent start): a start_service call that finds the registry record
\* naming a live process returns True as "already running" and does nothing
\* but the one liveness probe: no process is spawned, no terminating signal is
\* sent, no port is freed, the registry and the log are left alone; and over a
\* start that spawns followed by two such repeated starts the pid registry is
\* written exactly once.
C1_IdempotentStart ==
    [][/\ \A i \in Invokers :
            (ctx[i].pc = "s_check" /\ ctx'[i] # ctx[i] /\ RecordLive(ctx[i].svc))
            => /\ ctx'[i].pc = AfterReturn(ctx[i])
               /\ ctx'[i].ret = "true"
               /\ ctx'[i].msg = "already running"
               /\ eff'[i].tr = <<Ev("probe_ok", RecordedPid(ctx[i].svc))>>
               /\ UNCHANGED <<pidFile, logFile, proc, listener>>
       /\ \A s \in ServiceNames : hist'[s][1] = 3 => hist'[s][2] = 1]_vars

\* A start that spawned was followed by two starts of the same service that
\* reported "already running", the process still being alive.
C1_Witness ==
    \E s \in ServiceNames :
        /\ hist[s] = <<3, 1>>
        /\ ReturnedFrom(1, "start") /\ ctx[1].svc = s
        /\ ctx[1].msg = "already running"
        /\ RecordLive(s) /\ proc[RecordedPid(s)] = s

\* ------------------------------------------------------------------- C2
NoSignalCall(tr) ==
    \A j \in DOMAIN tr : tr[j].k \notin {"probe_ok", "probe_fail", "term", "kill", "port_term"}

\* C2 (idempotent stop): a stop_service call on a service without a pid file
\* returns True, makes no os.kill call of any kind (no probe, no SIGTERM, no
\* SIGKILL) and leaves the service without a pid file.
C2_IdempotentStop ==
    \A i \in Invokers :
        (ReturnedFrom(i, "stop") /\ eff[i].rec0 = NoFile)
        => /\ ctx[i].ret = "true"
           /\ NoSignalCall(eff[i].tr)
           /\ pidFile[ctx[i].svc] = NoFile

\* stop_service has returned on a service that had no pid file, while some
\* process is alive that a signal could have reached.
C2_Witness ==
    /\ ReturnedFrom(1, "stop") /\ eff[1].rec0 = NoFile
    /\ \E p \in Pids : Signalable(p)

\* ------------------------------------------------------------------- C3
\* C3 (escalation ordering): within one stop_service call at most one SIGTERM
\* and one SIGKILL are sent; a SIGKILL is preceded by the SIGTERM and by
\* exactly PollMax liveness polls in between, each of which found the process
\* alive; once a poll has found the process dead no SIGKILL is sent.
C3_EscalationOrder ==
    \A i \in Invokers :
        ctx[i].op = "stop" =>
            LET tr == eff[i].tr
            IN  /\ N(tr, "term") <= 1
                /\ N(tr, "kill") <= 1
                /\ \A j \in At(tr, "kill") :
                     \E g \in At(tr, "term") :
                        /\ g < j
                        /\ Cardinality({q \in At(tr, "probe_ok") : g < q /\ q < j}) = PollMax
                        /\ {q \in At(tr, "probe_fail") : g < q /\ q < j} = {}
                /\ \A q \in At(tr, "probe_fail") : \A j \in At(tr, "kill") : j < q

\* stop_service escalated: the SIGKILL was sent after ten polls found the
\* process alive.
C3_Witness ==
    /\ ReturnedFrom(1, "stop")
    /\ N(eff[1].tr, "kill") = 1
    /\ N(eff[1].tr, "probe_ok") = PollMax + 1

\* ------------------------------------------------------------------- C4
\* C4 (record removed on every path): whenever stop_service has returned, be it
\* True or False, the service has no pid file.
C4_StopRemovesRecord ==
    \A i \in Invokers : ReturnedFrom(i, "stop") => pidFile[ctx[i].svc] = NoFile

\* stop_service returned False because a signal call raised, the service
\* having had a record when the call was made.
C4_Witness ==
    /\ ReturnedFrom(1, "stop")
    /\ ctx[1].ret = "false"
    /\ N(eff[1].tr, "raise") = 1
    /\ eff[1].rec0 # NoFile

\* ------------------------------------------------------------------- C5
\* C5 as stated (port conflict): when start_service finds its port bound by a
\* process X, X is sent SIGTERM before the child is spawned.
C5_TermBeforeSpawn ==
    \A i \in Invokers :
        ctx[i].op = "start" =>
            LET tr == eff[i].tr
            IN  \A j \in At(tr, "spawn") : \A b \in At(tr, "port_busy") :
                    \E g \in At(tr, "port_term") : tr[g].p = tr[b].p /\ g < j

\* C5 as the code has it: a start_service of a service with a port checks the
\* port before it spawns; when the port is found bound by X the owners are
\* enumerated before the spawn, and X is sent SIGTERM, before the spawn, exactly
\* when the enumeration lists it; nothing of this follows the spawn.
C5_FreeAttemptBeforeSpawn ==
    \A i \in Invokers :
        ctx[i].op = "start" =>
            LET tr == eff[i].tr
                Freeing == At(tr, "port_busy") \cup At(tr, "port_free")
                             \cup At(tr, "lsof") \cup At(tr, "port_term")
            IN  \A j \in At(tr, "spawn") :
                  /\ \A f \in Freeing : f < j
                  /\ PortOf(ctx[i].svc) # 0 =>
                        N(tr, "port_busy") + N(tr, "port_free") = 1
                  /\ \A b \in At(tr, "port_busy") :
                        /\ b + 1 \in At(tr, "lsof")
                        /\ tr[b + 1].p > 0 <=>
                              \E g \in At(tr, "port_term") : tr[g].p = tr[b].p

\* The port was bound by a process, which was listed and sent SIGTERM, and the
\* child was spawned afterwards.
C5_Witness ==
    /\ ctx[1].op = "start"
    /\ N(eff[1].tr, "spawn") = 1
    /\ \E b \in At(eff[1].tr, "port_busy") : \E g \in At(eff[1].tr, "port_term") :
          eff[1].tr[g].p = eff[1].tr[b].p /\ eff[1].tr[b].p \in Pids

\* ------------------------------------------------------------------ C6
\* The documents of the session being archived, and where they are copied to.
ArchivedDocs(i) == Documents(eff[i].docs0)
InProcessArchive(i) == ctx[i].op = "archive" /\ N(eff[i].tr, "mkdir") = 1
CopiedIntact(i, f) ==
    LET dest == archive[DestName(ctx[i].sname)]
    IN  f \in DOMAIN dest /\ dest[f] = eff[i].docs0[f]

\* C6: in every state of the in-process archive (from the creation of the
\* dated directory on, intermediate states included) each non-template
\* document of the session is in the active directory or, intact, in the
\* archive directory, and none is missing from the active directory unless
\* all of them have been copied.
C6_ArchiveAtomicity ==
    \A i \in Invokers :
        InProcessArchive(i)
        => /\ \A f \in ArchivedDocs(i) :
                \/ f \in DOMAIN active /\ active[f] = eff[i].docs0[f]
                \/ CopiedIntact(i, f)
           /\ (\E f \in ArchivedDocs(i) : f \notin DOMAIN active)
              => \A f \in ArchivedDocs(i) : CopiedIntact(i, f)

\* The delete loop has removed one of several documents and is not finished.
C6_Witness ==
    /\ InProcessArchive(1)
    /\ ctx[1].pc = "r_delete"
    /\ Cardinality(ArchivedDocs(1)) >= 2
    /\ N(eff[1].tr, "unlink") = 1
    /\ ctx[1].todo # {}

\* ------------------------------------------------------------------ C7
\* A marker with a header, without the placeholder, that names the session.
WellFormed(dir) == HasSessionIn(dir) /\ SessionNameIn(dir) # NoName

\* C7 as stated: create_auto_session called on a well-formed marker returns
\* the name recorded in the marker, runs no script and writes nothing.
C7_CreateReturnsExisting ==
    \A i \in Invokers :
        (ReturnedFrom(i, "create") /\ WellFormed(eff[i].docs0))
        => /\ ctx[i].sname = SessionNameIn(eff[i].docs0)
           /\ N(eff[i].tr, "init_script") = 0
           /\ N(eff[i].tr, "write_marker") = 0
           /\ active = eff[i].docs0

\* C7 amended: activate, invoked on a well-formed marker, never enters
\* create_auto_session; it takes the name recorded in the marker and leaves
\* the active directory as it found it.
C7_ActivateConfirmsSession ==
    \A i \in Invokers :
        (ctx[i].top = "activate" /\ WellFormed(ctx[i].snap[3]))
        => /\ ctx[i].op # "create"
           /\ active = ctx[i].snap[3]
           /\ ctx[i].pc # "a_begin" => ctx[i].session = SessionNameIn(ctx[i].snap[3])

C7_Witness ==
    /\ ctx[1].top = "activate"
    /\ WellFormed(ctx[1].snap[3])
    /\ ctx[1].pc = "done"
    /\ ctx[1].session = <<"old", "-", "work">>

C9_DeactivateStopsAll ==
    \A i \in Invokers :
        (ctx[i].top = "deactivate" /\ ctx[i].pc = "done")
        => ctx[i].called = SERVICES

\* ----------------------------------------------------------------- C10
NoTerminatingSignal(tr) ==
    \A j \in DOMAIN tr : tr[j].k \notin {"term", "kill", "port_term"}

\* C10 as stated: status leaves the pid files, the log files, the active
\* directory and the archive as they were, sends no terminating signal, and
\* exits with status 0.
C10_StatusReadOnly ==
    \A i \in Invokers :
        ctx[i].top = "status"
        => /\ Snapshot = ctx[i].snap
           /\ NoTerminatingSignal(eff[i].tr)
           /\ ctx[i].pc = "done" => ctx[i].exit = 0

\* ----------------------------------------------------------------- C11
\* C11 as stated: a start_service that has spawned a child writes the child's
\* pid to the registry before the settle sleep; after the sleep it returns
\* True exactly when the child is running at that moment, and then the
\* record holds the child's pid.
C11_StartedIffAlive ==
    [][\A i \in Invokers :
          /\ (ctx[i].pc = "s_write" /\ ctx'[i].pc = "s_verify")
             => pidFile'[ctx[i].svc] = str(ctx[i].pid)
          /\ (ctx[i].pc = "s_verify" /\ ctx'[i] # ctx[i])
             => /\ ctx'[i].ret = "true" <=> proc[ctx[i].pid] = ctx[i].svc
                /\ ctx'[i].ret = "true" => pidFile'[ctx[i].svc] = str(ctx[i].pid)]_vars

\* ----------------------------------------------------------------- C12
\* The call found a record naming a pid and its liveness probe failed.
FoundStale(i) == Len(eff[i].tr) >= 1 /\ eff[i].tr[1].k = "probe_fail"

\* C12 (stale record): a start_service whose liveness probe of the recorded
\* pid fails does not report "already running"; it goes on to the spawn step
\* (the log is opened, or opening it fails), and when it has spawned and
\* written, the record holds the pid of the new child, written once.
C12_StaleRecord ==
    \A i \in Invokers :
        (ReturnedFrom(i, "start") /\ FoundStale(i))
        => LET tr == eff[i].tr
           IN  /\ ctx[i].msg # "already running"
               /\ N(tr, "open_fail") + N(tr, "open_log") = 1
               /\ ctx[i].msg \in {"started", "failed"}
                  => /\ N(tr, "write_pid") = 1
                     /\ \E j \in At(tr, "spawn") : pidFile[ctx[i].svc] = str(tr[j].p)

\* The record named dead pid 2; the call spawned pid 1 and recorded it.
C12_Witness ==
    /\ ReturnedFrom(1, "start")
    /\ FoundStale(1)
    /\ eff[1].rec0 = "2"
    /\ ctx[1].msg = "started"
    /\ pidFile[ctx[1].svc] = "1"

\* ----------------------------------------------------------------- C13
\* The archive script did not do the work: it is absent, or it exited non-zero.
ScriptFailed(tr) ==
    N(tr, "archive_script") = 0 \/ \E j \in At(tr, "archive_script") : tr[j].p # 0

\* C13 as stated: archive_session called with an active session, the archive
\* script absent or exiting non-zero, returns True with the dated directory
\* made, every non-template document copied into it, and none left in the
\* active directory.
C13_FallbackArchives ==
    \A i \in Invokers :
        (ReturnedFrom(i, "archive") /\ HasSessionIn(eff[i].docs0) /\ ScriptFailed(eff[i].tr))
        => /\ ctx[i].ret = "true"
           /\ DestName(ctx[i].sname) \in DOMAIN archive
           /\ \A f \in ArchivedDocs(i) : CopiedIntact(i, f)
           /\ Documents(active) = {}

\* ----------------------------------------------------------------- C14
\* C14 as stated: when deactivate, invoked with an active session, runs to
\* its end, no session is active any more.
C14_DeactivateEndsSession ==
    \A i \in Invokers :
        (/\ ctx[i].top = "deactivate"
         /\ ctx[i].pc = "done"
         /\ ctx[i].exit = 0
         /\ HasSessionIn(ctx[i].snap[3]))
        => ~has_active_session

\* ----------------------------------------------------------------- C15
\* C15 as stated: whatever the active directory held and whatever the init
\* script did, a session is active when activate calls the first
\* start_service and when activate returns.
C15_SessionBeforeServices ==
    \A i \in Invokers :
        (/\ ctx[i].top = "activate"
         /\ \/ ctx[i].pc = "a_services" /\ ctx[i].idx = 1
            \/ ctx[i].pc = "done")
        => has_active_session

\* ----------------------------------------------------------------- C16
\* C16: archive_session called with no active session returns False, runs
\* neither the summarizer nor the archive script, and leaves the archive and
\* the active directory as they were; deactivate with no active session does
\* not archive at all.
C16_ArchiveGuard ==
    \A i \in Invokers :
        /\ (ReturnedFrom(i, "archive") /\ ~HasSessionIn(eff[i].docs0))
           => /\ ctx[i].ret = "false"
              /\ ctx[i].msg = "no session"
              /\ eff[i].tr = <<>>
              /\ ctx[i].top = "archive" => /\ active = ctx[i].snap[3]
                                           /\ archive = ctx[i].snap[4]
        /\ (/\ ctx[i].top = "deactivate"
            /\ ctx[i].pc # "d_begin"
            /\ ~HasSessionIn(ctx[i].snap[3]))
           => /\ ctx[i].arch = "skipped"
              /\ ctx[i].op # "archive"
              /\ active = ctx[i].snap[3]
              /\ archive = ctx[i].snap[4]
C16_Witness ==
    /\ ReturnedFrom(1, "archive")
    /\ ctx[1].top = "archive"
    /\ ctx[1].msg = "no session"
    /\ TaskPlan \in DOMAIN active
    /\ ~has_active_session

\* ----------------------------------------------------------------- C17
\* C17: whatever the summarizer does (absent, exit 0, exit non-zero, raising)
\* archive_session goes on to the archive script with every file and every
\* local as they were, so what follows cannot depend on the summarizer.
C17_SummaryBestEffort ==
    [][\A i \in Invokers :
          (ctx[i].pc = "r_summary" /\ ctx'[i] # ctx[i])
          => /\ ctx'[i] = [ctx[i] EXCEPT !.pc = "r_script"]
             /\ UNCHANGED <<fsvars, sessvars>>]_vars
C17_Witness ==
    /\ ReturnedFrom(1, "archive")
    /\ N(eff[1].tr, "summary_raise") = 1
    /\ ctx[1].ret = "true"
    /\ DestName(ctx[1].sname) \in DOMAIN archive
    /\ Documents(active) = {}

\* ----------------------------------------------------------------- C18
\* C18: within activate, create_auto_session is entered, the init script is
\* run and the active directory is written only in states where no session
\* is active; so the marker of an active session is never replaced.
C18_CreateOnlyWhenNone ==
    [][\A i \in Invokers :
          ctx[i].top = "activate"
          => /\ (ctx[i].op # "create" /\ ctx'[i].op = "create") => ~has_active_session
             /\ (ctx[i].pc = "c_init" /\ ctx'[i].pc = "c_write") => ~has_active_session
             /\ active' # active => ~has_active_session]_vars
C18_Witness ==
    /\ ctx[1].top = "activate"
    /\ ctx[1].pc = "a_created"
    /\ N(eff[1].tr, "init_script") = 1
    /\ N(eff[1].tr, "write_marker") = 1
    /\ TaskPlan \in DOMAIN eff[1].docs0
    /\ HasPlaceholder(eff[1].docs0[TaskPlan])
    /\ has_active_session

\* ----------------------------------------------------------------- C19
\* No environment fault (log not writable, child not creatable, record not
\* writable) was met by the call.
NoFault(tr) == N(tr, "open_fail") + N(tr, "popen_fail") + N(tr, "write_fail") = 0
FoundRunning(i) == Len(eff[i].tr) >= 1 /\ eff[i].tr[1].k = "probe_ok"

\* C19 as stated: start_service on a running service, on a stale record or on
\* a busy port, and stop_service on a stopped service, return True with the
\* condition resolved: the stale record replaced by the child's, the port no
\* longer held by the process that held it, the record of the stopped service
\* gone.
C19_TransientResolved ==
    \A i \in Invokers :
        LET tr == eff[i].tr
            s == ctx[i].svc
        IN  /\ (ReturnedFrom(i, "start") /\ NoFault(tr))
               => /\ FoundRunning(i) => ctx[i].ret = "true"
                  /\ FoundStale(i)
                     => /\ ctx[i].ret = "true"
                        /\ \E j \in At(tr, "spawn") : pidFile[s] = str(tr[j].p)
                  /\ \A b \in At(tr, "port_busy") :
                        /\ ctx[i].ret = "true"
                        /\ \/ listener # tr[b].p
                           \/ \E j \in At(tr, "spawn") : tr[j].p = listener
            /\ (ReturnedFrom(i, "stop") /\ ~FoundRunning(i))
               => /\ ctx[i].ret = "true"
                  /\ pidFile[s] = NoFile

\* ----------------------------------------------------------------- C20
\* The process a signal to pid is denied for (EPERM).
Denied(pid) == pid \in Pids /\ proc[pid] = "foreign"

\* C20 as stated: a stop_service that meets a recorded process it may not
\* signal does not return True; it returns False with the record removed.
C20_DeniedStopFails ==
    [][\A i \in Invokers :
          LET s == ctx[i].svc
          IN  /\ (/\ ctx[i].pc = "k_check"
                  /\ Denied(read_pid(s))
                  /\ ctx'[i] # ctx[i])
                 => ctx'[i].ret # "true"
              /\ (ctx[i].pc = "k_except" /\ ctx'[i] # ctx[i])
                 => /\ ctx'[i].ret = "false"
                    /\ pidFile'[s] = NoFile]_vars

\* C20 as the code has it: a denial met by the liveness probe counts as "not
\* running": no terminating signal is sent, the record is removed and True is
\* returned without a diagnostic.  A denial met only by SIGTERM or SIGKILL
\* (the pid changed hands after the probe) leads to the handler, which removes
\* the record and returns False with the diagnostic.
C20_DeniedStopRemovesRecord ==
    [][\A i \in Invokers :
          LET s == ctx[i].svc
          IN  /\ (/\ ctx[i].pc = "k_check"
                  /\ Denied(read_pid(s))
                  /\ ctx'[i] # ctx[i])
                 => /\ ctx'[i].ret = "true"
                    /\ ctx'[i].msg = "not running"
                    /\ pidFile'[s] = NoFile
                    /\ N(eff'[i].tr, "term") + N(eff'[i].tr, "kill") = 0
              /\ (/\ ctx[i].pc \in {"k_term", "k_kill"}
                  /\ Denied(ctx[i].pid)
                  /\ ctx'[i] # ctx[i])
                 => ctx'[i].pc = "k_except"
              /\ (ctx[i].pc = "k_except" /\ ctx'[i] # ctx[i])
                 => /\ ctx'[i].ret = "false"
                    /\ ctx'[i].msg = "error"
                    /\ pidFile'[s] = NoFile]_vars
C20_Witness ==
    /\ ReturnedFrom(1, "stop")
    /\ eff[1].rec0 = "1"
    /\ Denied(1)
    /\ ctx[1].msg = "not running"
    /\ N(eff[1].tr, "probe_fail") = 1
    /\ pidFile[ctx[1].svc] = NoFile

\* ----------------------------------------------------------------- C21
\* The positions of the liveness checks of a call.
Probes(tr) == At(tr, "probe_ok") \cup At(tr, "probe_fail")

\* C21 as stated: when start_service or stop_service has returned, a record
\* naming a pid exists for the service only if that pid is the one the call's
\* last liveness check found alive.
C21_RecordOnlyIfAlive ==
    \A i \in Invokers :
        (/\ ReturnedFrom(i, "start") \/ ReturnedFrom(i, "stop")
         /\ Truthy(read_pid(ctx[i].svc)))
        => LET tr == eff[i].tr
           IN  /\ Probes(tr) # {}
               /\ LET n == CHOOSE j \in Probes(tr) : \A g \in Probes(tr) : g <= j
                  IN  tr[n] = Ev("probe_ok", read_pid(ctx[i].svc))

\* ----------------------------------------------------------------- C22
\* C22: stop_service polls at most PollMax times, start_service sleeps at
\* most twice (port freeing, settling), activate polls the port at most
\* WebWaitMax times; and every activate and deactivate command, with the
\* start_service and stop_service calls it makes, comes to its end.
C22_BoundedWaiting ==
    /\ [](\A i \in Invokers :
            /\ ctx[i].op = "stop" => /\ ctx[i].polls <= PollMax
                                    /\ N(eff[i].tr, "sleep") <= PollMax
            /\ ctx[i].op = "start" => N(eff[i].tr, "sleep") <= 2
            /\ ctx[i].pc = "a_wait" => ctx[i].polls <= WebWaitMax)
    /\ (ctx[1].top \in {"activate", "deactivate"}) ~> (ctx[1].pc = "done")
C22_Witness ==
    /\ ctx[1].top = "deactivate"
    /\ ctx[1].pc = "k_kill"
    /\ ctx[1].polls = PollMax
    /\ N(eff[1].tr, "sleep") = PollMax

\* ----------------------------------------------------------------- C23
\* The text with every "/" and "_" turned into "-".
Normalized(b) == [j \in DOMAIN b |-> IF b[j] \in {"/", "_"} THEN "-" ELSE b[j]]

\* C23: once create_auto_session has derived the name, it is
\* <project>-<date> when the branch is main or master or git gave none, and
\* the branch with its separators normalized otherwise.
C23_NameDerivation ==
    \A i \in Invokers :
        (ctx[i].op = "create" /\ ctx[i].pc # "c_derive")
        => IF ctx[i].branch \in {<<"main">>, <<"master">>}
           THEN \E project \in Projects :
                    ctx[i].sname = project \o <<"-", DateCompact>>
           ELSE /\ ctx[i].sname = Normalized(ctx[i].branch)
                /\ \A project \in Projects :
                      ctx[i].sname # project \o <<"-", DateCompact>>
C23_Witness ==
    /\ ReturnedFrom(1, "create")
    /\ ctx[1].branch = <<"feature", "/", "log", "_", "in">>
    /\ ctx[1].sname = <<"feature", "-", "log", "-", "in">>
    /\ N(eff[1].tr, "write_marker") = 1
    /\ SessionNameIn(active) = <<"feature", "-", "log", "-", "in">>

\* ----------------------------------------------------------------- C24
\* C24 as stated: the name create_auto_session returns, and the name in the
\* marker it wrote, hold neither "/" nor "_".
Sanitized(name) == \A j \in DOMAIN name : name[j] \notin {"/", "_"}
C24_NameSanitized ==
    \A i \in Invokers :
        ReturnedFrom(i, "create")
        => /\ Sanitized(ctx[i].sname)
           /\ N(eff[i].tr, "write_marker") = 1 => Sanitized(SessionNameIn(active))

\* ----------------------------------------------------------------- C25
\* C25 as stated: every deactivate ends with its completion report and exit
\* status 0, whatever became of the archive step and of each stop_service.
C25_DeactivateCompletes ==
    \A i \in Invokers :
        (ctx[i].top = "deactivate" /\ ctx[i].pc = "done")
        => /\ ctx[i].exit = 0
           /\ ctx[i].msg # "traceback"
           /\ Len(ctx[i].rets) = Len(SERVICES)

\* ----------------------------------------------------------------- C26
\* C26: once start_service has found its port busy, every pid the
\* enumeration listed is sent SIGTERM, a failing one included and the ones
\* after it too; no failure ends the call: it does not raise, and when it
\* has returned it has been through the spawn step.
C26_FreeingBestEffort ==
    \A i \in Invokers :
        LET tr == eff[i].tr
        IN  (ctx[i].op = "start" /\ N(tr, "port_busy") = 1)
            => /\ \A b \in At(tr, "lsof") : N(tr, "port_term") = tr[b].p
               /\ \A j \in At(tr, "swallowed") :
                     j > 1 /\ tr[j - 1] = Ev("port_term", tr[j].p)
               /\ ctx[i].msg # "traceback"
               /\ ctx[i].pc \in RetPcs
                  => N(tr, "open_fail") + N(tr, "open_log") = 1
C26_Witness ==
    /\ ReturnedFrom(1, "start")
    /\ ctx[1].msg = "started"
    /\ \E j \in At(eff[1].tr, "swallowed") : \E g \in At(eff[1].tr, "port_term") :
          g > j /\ eff[1].tr[g].p # eff[1].tr[j].p
    /\ N(eff[1].tr, "spawn") = 1

\* ----------------------------------------------------------------- C27
\* The dated directory an in-process archive has made and is copying into.
Filling(d) ==
    \E i \in Invokers : /\ InProcessArchive(i)
                        /\ ctx[i].pc = "r_copy"
                        /\ d = DestName(ctx[i].sname)
\* The step is the run of archive-task.sh.
ScriptRuns == \E i \in Invokers : ctx[i].pc = "r_script" /\ ctx'[i].pc # "r_script"

C28_TemplateOnlyAfterArchive ==
    \A i \in Invokers :
        (ReturnedFrom(i, "archive") /\ N(eff[i].tr, "mkdir") = 1)
        => /\ \A f \in DOMAIN archive[DestName(ctx[i].sname)] : ~IsTemplate(f)
           /\ \A f \in DOMAIN eff[i].docs0 :
                 IsTemplate(f) => f \in DOMAIN active /\ active[f] = eff[i].docs0[f]
           /\ \A f \in DOMAIN active : IsTemplate(f)

\* ----------------------------------------------------------------- C29
\* The pids the call has spawned.
Spawned(tr) == {tr[j].p : j \in At(tr, "spawn")}

BothStarted(s) ==
    \A i \in Invokers : /\ ReturnedFrom(i, "start")
                        /\ ctx[i].svc = s
                        /\ NoFault(eff[i].tr)
SpawnedByBoth == UNION {Spawned(eff[i].tr) : i \in Invokers}

\* C30 as stated: two start_service calls for one service, however their
\* steps interleave, spawn at most one process between them, and when both
\* have returned every live process of the service is the recorded one.
C30_OverlapSpawnsOne ==
    \A s \in ServiceNames :
        BothStarted(s)
        => /\ Cardinality(SpawnedByBoth) <= 1
           /\ \A p \in Pids : proc[p] = s => pidFile[s] = str(p)

\* C30 as the code has it: each of the two calls that did not find a live
\* record spawns one process and records it, so the two may spawn two; a call
\* that found a live record spawns none.  When both have returned the record
\* names one of the processes they spawned; the other one, if alive, runs
\* unrecorded.
C30_OverlapRecordsOne ==
    \A s \in ServiceNames :
        BothStarted(s)
        => /\ \A i \in Invokers :
                 /\ N(eff[i].tr, "spawn") = IF FoundRunning(i) THEN 0 ELSE 1
                 /\ \A j \in At(eff[i].tr, "spawn") :
                       eff[i].tr[j + 1] = Ev("write_pid", eff[i].tr[j].p)
           /\ (\A i \in Invokers : ~FoundRunning(i))
              => \E p \in SpawnedByBoth : pidFile[s] = str(p)
C30_Witness ==
    \E s \in ServiceNames :
        /\ BothStarted(s)
        /\ Cardinality(SpawnedByBoth) = 2
        /\ \A p \in SpawnedByBoth : proc[p] = s
        /\ \E p \in SpawnedByBoth : pidFile[s] # str(p)

\* ----------------------------------------------------------------- C31
\* C31 as stated: a stop_service call whose SIGTERM was delivered (os.kill
\* returned instead of raising) and whose process is gone when it returns,
\* whenever after the signal it went, returns True; and a stop_service call
\* returns False only when a process it sent SIGTERM or SIGKILL is still there.
C31_StopFailsOnlyIfAlive ==
    \A i \in Invokers :
        ReturnedFrom(i, "stop") =>
            LET tr == eff[i].tr
                signalled == {tr[j].p : j \in At(tr, "term") \cup At(tr, "kill")}
                delivered == \E j \in At(tr, "term") :
                                ~(j + 1 \in DOMAIN tr /\ tr[j + 1].k = "raise")
            IN  /\ (delivered /\ \A p \in signalled : proc[p] = "none")
                   => ctx[i].ret = "true"
                /\ ctx[i].ret = "false"
                   => \E p \in signalled : proc[p] # "none"

\* ----------------------------------------------------------------- C32
\* C32 as stated: except while a start_service call is between creating its
\* child and recording it, every service has at most one live process that
\* start_service spawned, and its record names that process.
C32_OneLiveRecorded ==
    \A s \in ServiceNames :
        (\A i \in Invokers : ~(ctx[i].op = "start" /\ ctx[i].pc = "s_write" /\ ctx[i].svc = s))
        => LET live == {p \in Pids : proc[p] = s}
           IN  /\ Cardinality(live) <= 1
               /\ \A p \in live : RecordedPid(s) = p

\* ----------------------------------------------------------------- C33
\* C33 as stated: when a start_service call that created a child has
\* returned, by whichever path, the record of the service is the child's pid.
C33_SpawnedIsRecorded ==
    \A i \in Invokers :
        ReturnedFrom(i, "start") =>
            \A p \in Spawned(eff[i].tr) : pidFile[ctx[i].svc] = str(p)

\* ----------------------------------------------------------------- C34
\* C34 as stated: the step of stop_service that removes the record does not
\* delete a record that names a live process which a start_service call of
\* another invocation, in progress or just returned, spawned and recorded.
C34_StopRemovesOnlyOwn ==
    [][\A i \in Invokers :
          LET s == ctx[i].svc
              r == RecordedPid(s)
          IN  (/\ ctx[i].op = "stop"
               /\ ctx[i].pc \in {"k_remove", "k_except"}
               /\ ctx'[i].pc # ctx[i].pc
               /\ \E j \in Invokers \ {i} :
                     /\ ctx[j].op = "start"
                     /\ ctx[j].svc = s
                     /\ r \in Spawned(eff[j].tr)
                     /\ Ev("write_pid", r) \in {eff[j].tr[n] : n \in DOMAIN eff[j].tr}
                     /\ proc[r] = s)
              => pidFile'[s] = pidFile[s]]_vars

\* C34, amended: the removing step of stop_service deletes the record of its
\* service whatever the record holds at that moment, the record of a process
\* a concurrent start_service has spawned since included; no other record
\* is touched.
C34_StopRemovesWhateverIsThere ==
    [][\A i \in Invokers :
          (/\ ctx[i].op = "stop"
           /\ ctx[i].pc \in {"k_remove", "k_except"}
           /\ ctx'[i].pc # ctx[i].pc)
          => /\ pidFile'[ctx[i].svc] = NoFile
             /\ \A s \in ServiceNames \ {ctx[i].svc} : pidFile'[s] = pidFile[s]]_vars

\* A stop_service has returned having removed the record which the start_service
\* of the other invocation wrote for a process of another pid than the one
\* stop_service signalled; the process runs and the registry has no record.
C34_Witness ==
    /\ ReturnedFrom(2, "stop")
    /\ ctx[1].op = "start"
    /\ ctx[1].svc = ctx[2].svc
    /\ pidFile[ctx[2].svc] = NoFile
    /\ At(eff[2].tr, "term") # {}
    /\ \E p \in Spawned(eff[1].tr) :
          /\ At(eff[1].tr, "write_pid") # {}
          /\ proc[p] = ctx[2].svc
          /\ \A j \in At(eff[2].tr, "term") \cup At(eff[2].tr, "kill") : eff[2].tr[j].p # p

\* ----------------------------------------------------------------- C35
\* C35 as stated: whenever has_active_session() is true get_session_name()
\* returns a name, and the name archive_session holds once past its guard,
\* which names the archive directory, is the task name of the marker.
C35_PredicatesAgree ==
    /\ has_active_session => get_session_name # NoName
    /\ \A i \in Invokers :
          (ctx[i].op = "archive" /\ ctx[i].pc \in {"r_summary", "r_script", "r_mkdir"})
          => ctx[i].sname # NoName

\* ----------------------------------------------------------------- C36
\* C36 as stated: an archive_session call that came to its in-process archive
\* and found the dated directory of the session already there returns True
\* with no non-template document left in the active directory.
C36_ExistingDestStillArchives ==
    \A i \in Invokers :
        (ReturnedFrom(i, "archive") /\ At(eff[i].tr, "dest_exists") # {})
        => /\ ctx[i].ret = "true"
           /\ Documents(active) = {}

\* ----------------------------------------------------------------- C37
\* C37: no step of a start_service or stop_service call on a service changes
\* the pid record or the log file of another service.
C37_OtherServicesUntouched ==
    [][\A i \in Invokers :
          (ctx'[i] # ctx[i] /\ (ctx[i].op \in {"start", "stop"} \/ ctx'[i].op \in {"start", "stop"}))
          => LET s == IF ctx[i].op \in {"start", "stop"} THEN ctx[i].svc ELSE ctx'[i].svc
             IN  \A t \in ServiceNames \ {s} :
                    /\ pidFile'[t] = pidFile[t]
                    /\ logFile'[t] = logFile[t]]_vars

\* A start_service call has spawned and recorded its process while the other
\* service has its own record, naming its own live process, and its own log.
C37_Witness ==
    /\ ReturnedFrom(1, "start")
    /\ ctx[1].msg = "started"
    /\ \E t \in ServiceNames \ {ctx[1].svc} :
          /\ RecordLive(t)
          /\ proc[RecordedPid(t)] = t
          /\ pidFile[t] # pidFile[ctx[1].svc]
          /\ RecordedPid(t) \in logFile[t].from
          /\ RecordedPid(t) \notin logFile[ctx[1].svc].from

\* ----------------------------------------------------------------- C38
\* C38 as stated: when archive_prompts has returned, then, if the prompt log
\* held prompts when it was called, the log holds none, the history is the
\* former history followed by those prompts in their order, cut from the
\* front to the history limit configured (its last `limit` prompts, all of
\* them when there are no more), and the count returned is the number of
\* those prompts; if the log held none, 0 is returned and the history and
\* the archive are as they were.
C38_PromptsMovedAsAWhole ==
    \A i \in Invokers :
        ReturnedFrom(i, "archive_prompts") =>
            LET log0 == LoadList(ctx[i].snap[3], PROMPTS_LOG)
                history0 == LoadList(ctx[i].snap[6], PROMPTS_HISTORY)
                all == history0 \o log0
                tr == eff[i].tr
            IN  IF log0 # <<>>
                THEN /\ load_prompts_log = <<>>
                     /\ At(tr, "save_history") # {}
                     /\ \A j \in At(tr, "save_history") :
                            load_prompts_history =
                                IF Len(all) <= tr[j].p THEN all
                                ELSE SubSeq(all, Len(all) - tr[j].p + 1, Len(all))
                     /\ ctx[i].count = Len(log0)
                ELSE /\ ctx[i].count = 0
                     /\ memory = ctx[i].snap[6]
                     /\ archive = ctx[i].snap[4]

====
